---- MODULE Spec2Model ----
(***************************************************************************)
(* A model of the HXML pipeline: the tree builder of src/parser.ts with    *)
(* its recovery helpers, the document normalization of                     *)
(* parser-internal/html-normalization.ts and the validator of validator.ts.*)
(*                                                                         *)
(* The token stream is revealed one token at a time: every step of the     *)
(* scan draws the next token from the input vocabulary, so the reachable   *)
(* states cover every token sequence of at most MaxTokens tokens over the  *)
(* vocabulary chosen in Init.  Names, attribute names and text are strings *)
(* and the string functions of the code (toLowerCase, includes, indexOf,   *)
(* slice, startsWith, trim) are computed character by character.           *)
(***************************************************************************)
EXTENDS Naturals, Integers, Sequences, FiniteSets, TLC

\* Longest token stream explored.
MaxTokens == 4

\* Longest token stream explored over the document containers alone.
MaxContainerTokens == 5

\* Longest token stream explored over the streams that fill the recent
\* force-closed buffer: <b>, seventeen formatting elements, </b> and two more
\* close tags.
MaxRecentTokens == 21

\* const name = value: Body is evaluated with its parameter bound to the
\* value
With(value, Body(_)) == Body(value)

\* ---------------------------------------------------------------------------
\* Strings
\* ---------------------------------------------------------------------------

CharAt(s, i) == SubSeq(s, i, i)

UpperAlpha == "ABCDEFGHIJKLMNOPQRSTUVWXYZ"
LowerAlpha == "abcdefghijklmnopqrstuvwxyz"

\* The lower-case letter of each upper-case letter
LowerCaseOf ==
    [c \in {CharAt(UpperAlpha, i) : i \in 1..Len(UpperAlpha)} |->
        CharAt(LowerAlpha, CHOOSE i \in 1..Len(UpperAlpha) : CharAt(UpperAlpha, i) = c)]

toLowerChar(c) == IF c \in DOMAIN LowerCaseOf THEN LowerCaseOf[c] ELSE c

RECURSIVE toLowerCase(_)
toLowerCase(s) ==
    IF Len(s) = 0 THEN ""
    ELSE toLowerChar(CharAt(s, 1)) \o toLowerCase(SubSeq(s, 2, Len(s)))

\* s.includes(c) for a one-character c
includes(s, c) == \E i \in 1..Len(s) : CharAt(s, i) = c

\* s.indexOf(c) as a 1-based index, 0 when absent
indexOf(s, c) ==
    IF includes(s, c)
    THEN CHOOSE i \in 1..Len(s) :
            /\ CharAt(s, i) = c
            /\ \A j \in 1..(i - 1) : CharAt(s, j) # c
    ELSE 0

startsWith(s, p) == Len(s) >= Len(p) /\ SubSeq(s, 1, Len(p)) = p

\* s.slice(n): drops the first n characters
sliceFrom(s, n) == SubSeq(s, n + 1, Len(s))

WhiteSpace == {" ", "\t", "\n", "\r", "\f"}

\* !s.trim(): the string is empty or holds white space only
trimIsEmpty(s) == \A i \in 1..Len(s) : CharAt(s, i) \in WhiteSpace

\* The character at 1-based index i, "" outside the string
charAt(s, i) == IF i >= 1 /\ i <= Len(s) THEN SubSeq(s, i, i) ELSE ""

CharsOf(s) == {SubSeq(s, i, i) : i \in 1..Len(s)}

DecDigits == "0123456789"
HexDigits == "0123456789abcdefABCDEF"

\* The number of consecutive characters of class from index i on
RECURSIVE runLength(_, _, _)
runLength(s, i, class) ==
    IF i <= Len(s) /\ SubSeq(s, i, i) \in class
    THEN 1 + runLength(s, i + 1, class)
    ELSE 0

\* s.trim()
RECURSIVE trimStart(_)
trimStart(s) ==
    IF Len(s) > 0 /\ SubSeq(s, 1, 1) \in WhiteSpace
    THEN trimStart(SubSeq(s, 2, Len(s)))
    ELSE s

RECURSIVE trimEnd(_)
trimEnd(s) ==
    IF Len(s) > 0 /\ SubSeq(s, Len(s), Len(s)) \in WhiteSpace
    THEN trimEnd(SubSeq(s, 1, Len(s) - 1))
    ELSE s

trim(s) == trimEnd(trimStart(s))

\* A nullable value: None is null, Some(v) a value.
None == <<>>
Some(v) == <<v>>
IsNone(o) == Len(o) = 0
The(o) == o[1]

\* A Map as a function on its key set; get is undefined outside the domain.
EmptyMap == <<>>
MapHas(m, k) == k \in DOMAIN m
MapSet(m, k, v) == [x \in (DOMAIN m) \cup {k} |-> IF x = k THEN v ELSE m[x]]

\* ---------------------------------------------------------------------------
\* utils/entities.ts
\* ---------------------------------------------------------------------------

MaxCodePoint == 1114111
FirstSurrogate == 55296
LastSurrogate == 57343

\* The value of a digit: its place in "0123456789abcdef", A-F as a-f
digitValue(c) ==
    LET lower == toLowerChar(c)
    IN  (CHOOSE i \in 1..16 : SubSeq("0123456789abcdef", i, i) = lower) - 1

\* Number.parseInt(raw, base) for a string of digits of the base.  Values
\* above MaxCodePoint are kept as MaxCodePoint + 1: the code only asks whether
\* the number is a valid code point.
RECURSIVE parseIntFrom(_, _, _)
parseIntFrom(raw, base, acc) ==
    IF Len(raw) = 0 THEN acc
    ELSE LET next == acc * base + digitValue(SubSeq(raw, 1, 1))
         IN  parseIntFrom(SubSeq(raw, 2, Len(raw)), base,
                          IF next > MaxCodePoint THEN MaxCodePoint + 1 ELSE next)

parseInt(raw, base) == parseIntFrom(raw, base, 0)

isValidCodePoint_SurrogatesAllowed(codePoint) ==
    codePoint >= 0 /\ codePoint <= MaxCodePoint

isValidCodePoint(codePoint) ==
    /\ codePoint >= 0 /\ codePoint <= MaxCodePoint
    /\ ~(codePoint >= FirstSurrogate /\ codePoint <= LastSurrogate)

\* The printable ASCII characters of code points 32 to 95 and 97 to 126
AsciiLow ==
    " !\"#$%&'()*+,-./0123456789:;<=>?@ABCDEFGHIJKLMNOPQRSTUVWXYZ[\\]^_"
AsciiHigh == "abcdefghijklmnopqrstuvwxyz{|}~"

\* String.fromCodePoint: the character itself for these, for any other code
\* point a stand-in that names it
fromCodePoint(codePoint) ==
    IF codePoint >= 32 /\ codePoint < 32 + Len(AsciiLow)
    THEN SubSeq(AsciiLow, codePoint - 31, codePoint - 31)
    ELSE IF codePoint >= 97 /\ codePoint < 97 + Len(AsciiHigh)
    THEN SubSeq(AsciiHigh, codePoint - 96, codePoint - 96)
    ELSE "\\u{" \o ToString(codePoint) \o "}"

\* decodeHTMLStrict of the entities package on one reference &name;
\* references it does not know are left as they are
decodeHTMLStrict(full) ==
    CASE full = "&amp;"  -> "&"
      [] full = "&lt;"   -> "<"
      [] full = "&gt;"   -> ">"
      [] full = "&quot;" -> "\""
      [] full = "&apos;" -> "'"
      [] full = "&nbsp;" -> "\\u{160}"
      [] OTHER -> full

\* The length of the match of /&(#x[0-9a-fA-F]+|#\d+|[A-Za-z][A-Za-z0-9]+);/
\* at index i, 0 when the pattern does not match there
referenceLengthAt(s, i) ==
    LET hex   == runLength(s, i + 3, CharsOf(HexDigits))
        dec   == runLength(s, i + 2, CharsOf(DecDigits))
        alnum == runLength(s, i + 2, CharsOf(UpperAlpha) \cup CharsOf(LowerAlpha)
                                       \cup CharsOf(DecDigits))
    IN  IF charAt(s, i) # "&" THEN 0
        ELSE IF charAt(s, i + 1) = "#" /\ charAt(s, i + 2) = "x" /\ hex >= 1
                /\ charAt(s, i + 3 + hex) = ";"
        THEN hex + 4
        ELSE IF charAt(s, i + 1) = "#" /\ dec >= 1 /\ charAt(s, i + 2 + dec) = ";"
        THEN dec + 3
        ELSE IF charAt(s, i + 1) \in (CharsOf(UpperAlpha) \cup CharsOf(LowerAlpha))
                /\ alnum >= 1 /\ charAt(s, i + 2 + alnum) = ";"
        THEN alnum + 3
        ELSE 0

\* The replacement callback of decodeCharacterReferencesDetailed for the
\* match full: the replacement and whether the reference is reported
decodeReference(full) ==
    LET body == SubSeq(full, 2, Len(full) - 1) IN
    IF SubSeq(body, 1, 1) = "#"
    THEN LET isHex == SubSeq(body, 2, 2) \in {"x", "X"}
             raw   == IF isHex THEN SubSeq(body, 3, Len(body)) ELSE SubSeq(body, 2, Len(body))
             codePoint == parseInt(raw, IF isHex THEN 16 ELSE 10)
         IN  IF ~isValidCodePoint(codePoint)
             THEN [text |-> full, invalid |-> TRUE]
             ELSE [text |-> fromCodePoint(codePoint), invalid |-> FALSE]
    ELSE [text |-> decodeHTMLStrict(full), invalid |-> FALSE]

\* input.replace(regex, callback) from index i on: the decoded value and the
\* invalid numeric references, each with its 0-based index in the input
RECURSIVE decodeFrom(_, _)
decodeFrom(input, i) ==
    IF i > Len(input) THEN [value |-> "", invalidNumericReferences |-> <<>>]
    ELSE LET n == referenceLengthAt(input, i) IN
         IF n = 0
         THEN LET rest == decodeFrom(input, i + 1)
              IN  [rest EXCEPT !.value = SubSeq(input, i, i) \o @]
         ELSE LET full == SubSeq(input, i, i + n - 1)
                  one  == decodeReference(full)
                  rest == decodeFrom(input, i + n)
              IN  [value |-> one.text \o rest.value,
                   invalidNumericReferences |->
                       (IF one.invalid
                        THEN <<[raw |-> full, index |-> i - 1, length |-> n]>>
                        ELSE <<>>) \o rest.invalidNumericReferences]

decodeCharacterReferencesDetailed(input) == decodeFrom(input, 1)

\* ---------------------------------------------------------------------------
\* constants.ts
\* ---------------------------------------------------------------------------

HTML_VOID_ELEMENTS ==
    {"area", "base", "br", "col", "embed", "hr", "img", "input",
     "link", "meta", "param", "source", "track", "wbr"}

HTML_RAW_TEXT_ELEMENTS == {"script", "style", "textarea", "title"}

P_CLOSERS ==
    {"address", "article", "aside", "blockquote", "details", "div", "dl",
     "fieldset", "figcaption", "figure", "footer", "h1", "h2", "h3", "h4",
     "h5", "h6", "header", "hgroup", "hr", "main", "nav", "ol", "p", "pre",
     "section", "summary", "table", "ul"}

HTML_AUTO_CLOSE_BEFORE ==
    [p        |-> P_CLOSERS,
     li       |-> {"li"},
     dt       |-> {"dt", "dd"},
     dd       |-> {"dt", "dd"},
     td       |-> {"td", "th"},
     th       |-> {"td", "th"},
     tr       |-> {"tr"},
     option   |-> {"option", "optgroup"},
     optgroup |-> {"optgroup"},
     rb       |-> {"rb", "rt", "rtc", "rp"},
     rt       |-> {"rb", "rt", "rtc", "rp"},
     rtc      |-> {"rb", "rtc", "rp"},
     rp       |-> {"rb", "rt", "rtc", "rp"},
     thead    |-> {"tbody", "tfoot"},
     tbody    |-> {"tbody", "tfoot"},
     tfoot    |-> {"tbody"},
     colgroup |-> {"colgroup"},
     caption  |-> {"caption", "colgroup", "thead", "tbody", "tfoot", "tr"},
     head     |-> {"body"}]

\* htmlAutoCloseBefore[stackName]: the set, or the empty set when undefined
closeSetOf(table, stackName) ==
    IF stackName \in DOMAIN table THEN table[stackName] ELSE {}

PREDECLARED_NAMESPACES ==
    [k \in {"xml", "xmlns"} |->
        IF k = "xml" THEN "http://www.w3.org/XML/1998/namespace"
        ELSE "http://www.w3.org/2000/xmlns/"]

HTML_MODE_SWITCH_TAG == "xml"
ADOPTION_FORMATTING_TAGS == {"b", "i", "em", "strong"}
RecentCapacity == 16


\* ---------------------------------------------------------------------------
\* Tokens (tokenizer-internal/types.ts).  loc is the token's place in the
\* stream; it stands for the source range, which is distinct per token.
\* ---------------------------------------------------------------------------

Attr(n, v) == [name |-> n, value |-> v]

OpenTag(n, as, sc) == [type |-> "OPEN_TAG", name |-> n, attrs |-> as, selfClosing |-> sc]
CloseTag(n)        == [type |-> "CLOSE_TAG", name |-> n]
Text(v)            == [type |-> "TEXT", value |-> v]
Comment(v)         == [type |-> "COMMENT", value |-> v]
CData(v)           == [type |-> "CDATA", value |-> v]
PI(t, d)           == [type |-> "PI", target |-> t, data |-> d]
Doctype(v)         == [type |-> "DOCTYPE", value |-> v]

NoToken == [type |-> "NONE"]

\* ---------------------------------------------------------------------------
\* State
\* ---------------------------------------------------------------------------

VARIABLES
    pc,            \* "scan" (token loop), "parsed" (parse returned), "validated"
    vocabulary,    \* the tokens the input is made of
    fragment,      \* ParseOptions.fragment
    preserveWhitespace, \* ParseOptions.preserveWhitespace
    tok,           \* the token handled by the last step of the scan
    ntok,          \* number of tokens consumed
    nodes,         \* the AST: nodes[1] is the Root, children are node indices
    stack,         \* the element stack of parse, bottom frame first
    diagnostics,   \* the diagnostics of parse
    recentlyImplicitlyClosedHtml, \* names recently force-closed by a close tag
    validation,    \* the diagnostics returned by validate
    document,      \* the source text handed to the API
    lexed,         \* what Tokenizer.tokenize() returned, with the diagnostics
    generator,     \* tokenizeStream(): its tokenizer and the tokens yielded so far
    results,       \* what emit, emitToStream, compile, format and the re-parse returned
    validateOptions, \* the ValidateOptions validate is called with
    position,      \* the offset SourceTracker.positionAt was asked for, and its answer
    EMPTY_CHILDREN \* the module's shared array of the childless nodes (parser.ts line 57)

apiVars == <<document, lexed, generator, results>>

vars == <<pc, vocabulary, fragment, preserveWhitespace, tok, ntok, nodes, stack,
          diagnostics, recentlyImplicitlyClosedHtml, validation, document, lexed,
          generator, results, validateOptions, position, EMPTY_CHILDREN>>

ROOT == 1

\* ---------------------------------------------------------------------------
\* parser-internal/helpers.ts
\* ---------------------------------------------------------------------------

isXmlName(name) == includes(name, ":")

splitName(name) ==
    LET idx == indexOf(name, ":")
    IN  IF idx = 0 THEN [prefix |-> None, localName |-> name]
        ELSE [prefix |-> Some(SubSeq(name, 1, idx - 1)),
              localName |-> sliceFrom(name, idx)]

\* makeError(code, message, loc, hint): the message is kept as the name it
\* quotes, the hint is not modelled.
makeError(code, name, loc) ==
    [severity |-> "error", code |-> code, name |-> name, loc |-> loc]

\* makeWarning with the severity of makeError
makeWarning_AsError(code, name, loc) ==
    [severity |-> "error", code |-> code, name |-> name, loc |-> loc]

makeWarning(code, name, loc) ==
    [severity |-> "warning", code |-> code, name |-> name, loc |-> loc]

\* tracker.range(tokenLoc.start.offset + index, ...): the place of a reference
\* inside the token or attribute at loc
RefLoc(loc, index) == <<loc[1], loc[2], index>>

\* helpers.ts, lines 77-78: startOffset and endOffset of an invalid reference
\* of the token or attribute whose range is tokenLoc
referenceRange(tokenLoc, invalidRef) ==
    <<tokenLoc[1] + invalidRef.index,
      tokenLoc[1] + invalidRef.index + invalidRef.length>>

\* The HXML105 diagnostics of reportInvalidReferences, one for each invalid
\* reference in the order decoding found them
invalidReferenceDiagnostics(refs, tokenLoc) ==
    [i \in 1..Len(refs) |-> makeError("HXML105", refs[i].raw, RefLoc(tokenLoc, refs[i].index))]

\* reportInvalidReferences without the diagnostics
reportInvalidReferences_Silent(rawValue, tokenLoc, diags) ==
    [value |-> decodeCharacterReferencesDetailed(rawValue).value, diagnostics |-> diags]

\* reportInvalidReferences(rawValue, tokenLoc, tracker, diagnostics): the
\* decoded value and the diagnostics list after the call
reportInvalidReferences(rawValue, tokenLoc, diags) ==
    LET decoded == decodeCharacterReferencesDetailed(rawValue)
    IN  [value |-> decoded.value,
         diagnostics |-> diags \o invalidReferenceDiagnostics(
                                     decoded.invalidNumericReferences, tokenLoc)]

\* ---------------------------------------------------------------------------
\* tokenizer.ts.  pos is the 0-based offset of the code; a Tokenizer is the
\* record [pos, pending, diagnostics] and the source it reads.
\* ---------------------------------------------------------------------------

\* A token with its source range
Located(token, start, end) == [loc |-> <<start, end>>] @@ token

eof(src, pos) == pos >= Len(src)

peek(src, pos, n) == charAt(src, pos + n + 1)

slice(src, from, to) == SubSeq(src, from + 1, to)

match(src, pos, str) ==
    pos + Len(str) <= Len(src) /\ slice(src, pos, pos + Len(str)) = str

matchCI(src, pos, str) ==
    /\ pos + Len(str) <= Len(src)
    /\ toLowerCase(slice(src, pos, pos + Len(str))) = toLowerCase(str)

\* The offset after the characters of class that start at pos
runOf(src, pos, class) == pos + runLength(src, pos + 1, class)

\* The offset of the first character at or after pos that is in stops, the
\* length of the source when there is none
RECURSIVE scanTo(_, _, _)
scanTo(src, pos, stops) ==
    IF pos >= Len(src) \/ charAt(src, pos + 1) \in stops THEN pos
    ELSE scanTo(src, pos + 1, stops)

skipWS(src, pos) == runOf(src, pos, {" ", "\t", "\n", "\r", "\f"})

\* src.indexOf(str, pos): -1 when absent
RECURSIVE indexOfFrom(_, _, _)
indexOfFrom(src, str, pos) ==
    IF pos + Len(str) > Len(src) THEN -1
    ELSE IF slice(src, pos, pos + Len(str)) = str THEN pos
    ELSE indexOfFrom(src, str, pos + 1)

readUntil(src, pos, terminator) ==
    LET i == indexOfFrom(src, terminator, pos)
    IN  IF i < 0 THEN [text |-> slice(src, pos, Len(src)), pos |-> Len(src)]
        ELSE [text |-> slice(src, pos, i), pos |-> i + Len(terminator)]

readTextUntilLt(src, pos) ==
    LET idx == indexOfFrom(src, "<", pos)
    IN  IF idx < 0 THEN [text |-> slice(src, pos, Len(src)), pos |-> Len(src)]
        ELSE [text |-> slice(src, pos, idx), pos |-> idx]

readTagName(src, pos) ==
    LET end == scanTo(src, pos, {" ", "\t", "\n", "\r", ">", "/", "<"})
    IN  [text |-> slice(src, pos, end), pos |-> end]

readCloseTagName(src, pos) ==
    LET end == scanTo(src, pos, {" ", "\t", "\n", "\r", ">"})
    IN  [text |-> slice(src, pos, end), pos |-> end]

readAttrName(src, pos) ==
    LET end == scanTo(src, pos, {" ", "\t", "\n", "\r", "=", ">", "/", "\"", "'"})
    IN  [text |-> slice(src, pos, end), pos |-> end]

readUnquotedAttrValue(src, pos) ==
    LET end == scanTo(src, pos, {" ", "\t", "\n", "\r", ">", "/"})
    IN  [text |-> slice(src, pos, end), pos |-> end]

\* readAttrValue that reads a quoted value up to its closing quote, across
\* line ends
readAttrValue_AcrossLines(src, pos, diags) ==
    LET q == peek(src, pos, 0) IN
    IF q \in {"\"", "'"}
    THEN LET stop == scanTo(src, pos + 1, {q})
             val  == slice(src, pos + 1, stop)
         IN  IF ~eof(src, stop)
             THEN [text |-> val, pos |-> stop + 1, diagnostics |-> diags]
             ELSE [text |-> val, pos |-> stop,
                   diagnostics |-> Append(diags, makeError("HXML002", q, <<pos, stop>>))]
    ELSE LET r == readUnquotedAttrValue(src, pos)
         IN  [text |-> r.text, pos |-> r.pos, diagnostics |-> diags]

\* readAttrValue: the value, the offset after it and the diagnostics list
readAttrValue(src, pos, diags) ==
    LET q == peek(src, pos, 0) IN
    IF q \in {"\"", "'"}
    THEN LET stop == scanTo(src, pos + 1, {q, "\n", "\r"})
             val  == slice(src, pos + 1, stop)
         IN  IF ~eof(src, stop) /\ charAt(src, stop + 1) = q
             THEN [text |-> val, pos |-> stop + 1, diagnostics |-> diags]
             ELSE [text |-> val, pos |-> stop,
                   diagnostics |-> Append(diags, makeError("HXML002", q, <<pos, stop>>))]
    ELSE LET r == readUnquotedAttrValue(src, pos)
         IN  [text |-> r.text, pos |-> r.pos, diagnostics |-> diags]

\* readAttrs: the loop, with the attributes read so far
RECURSIVE readAttrsFrom(_, _, _, _)
readAttrsFrom(src, pos, attrs, diags) ==
    IF eof(src, pos) THEN [attrs |-> attrs, pos |-> pos, diagnostics |-> diags]
    ELSE LET p1   == skipWS(src, pos)
             name == readAttrName(src, p1)
             p3   == skipWS(src, name.pos)
             val  == readAttrValue(src, skipWS(src, p3 + 1), diags)
         IN  IF peek(src, p1, 0) = ">" \/ match(src, p1, "/>") \/ name.text = ""
             THEN [attrs |-> attrs, pos |-> p1, diagnostics |-> diags]
             ELSE IF peek(src, p3, 0) = "="
             THEN readAttrsFrom(src, val.pos,
                      Append(attrs, [name |-> name.text, value |-> Some(val.text),
                                     loc |-> <<p1, val.pos>>]),
                      val.diagnostics)
             ELSE readAttrsFrom(src, p3,
                      Append(attrs, [name |-> name.text, value |-> None,
                                     loc |-> <<p1, p3>>]),
                      diags)

readAttrs(src, pos, diags) == readAttrsFrom(src, pos, <<>>, diags)

\* readRawText that ends the text at the first '<'
readRawTextFrom_ToFirstTag(src, start, pos, closeTag) ==
    LET ltIdx == indexOfFrom(src, "<", pos)
        end   == IF ltIdx < 0 THEN Len(src) ELSE ltIdx
    IN  [token |-> IF end > start
                   THEN Some(Located(Text(slice(src, start, end)), start, end)) ELSE None,
         pos |-> end]

\* readRawText: the loop from offset pos on, for the text that starts at start
RECURSIVE readRawTextFrom(_, _, _, _)
readRawTextFrom(src, start, pos, closeTag) ==
    LET ltIdx    == indexOfFrom(src, "<", pos)
        afterTag == charAt(src, ltIdx + Len(closeTag) + 1)
        text     == IF ltIdx < 0 THEN slice(src, start, Len(src))
                    ELSE slice(src, start, ltIdx)
        end      == IF ltIdx < 0 THEN Len(src) ELSE ltIdx
    IN  IF pos < Len(src) /\ ltIdx >= 0
           /\ ~(matchCI(src, ltIdx, closeTag) /\ afterTag \in {">", " ", "\t", "\n", "\r", ""})
        THEN readRawTextFrom(src, start, ltIdx + 1, closeTag)
        ELSE LET whole == IF pos < Len(src) /\ ltIdx >= 0 THEN text
                          ELSE slice(src, start, Len(src))
                 stop  == IF pos < Len(src) /\ ltIdx >= 0 THEN end ELSE Len(src)
             IN  [token |-> IF whole # ""
                            THEN Some(Located(Text(whole), start, stop)) ELSE None,
                  pos |-> stop]

\* readRawText that returns a TEXT token for a text that is empty, too
readRawText_EmptyTextToken(src, pos, tagName) ==
    LET read == readRawTextFrom(src, pos, pos, "</" \o toLowerCase(tagName))
    IN  [token |-> IF IsNone(read.token) THEN Some(Located(Text(""), pos, read.pos))
                   ELSE read.token,
         pos |-> read.pos]

readRawText(src, pos, tagName) ==
    readRawTextFrom(src, pos, pos, "</" \o toLowerCase(tagName))

\* raw.search(/\s/): the 0-based index of the first white space, -1 if none
searchWhiteSpace(raw) ==
    LET i == scanTo(raw, 0, WhiteSpace) IN IF i >= Len(raw) THEN -1 ELSE i

NewTokenizer == [pos |-> 0, pending |-> None, diagnostics |-> <<>>]

\* The open tag branch of nextToken, for the name read after '<' at start
openTagToken(src, tk, start, name) ==
    With(readAttrs(src, name.pos, tk.diagnostics), LAMBDA attrs :
    With(skipWS(src, attrs.pos), LAMBDA p1 :
    With(match(src, p1, "/>"), LAMBDA selfClosing :
    With(IF selfClosing THEN p1 + 2
         ELSE IF peek(src, p1, 0) = ">" THEN p1 + 1 ELSE p1, LAMBDA p2 :
    With(~includes(name.text, ":")
         /\ toLowerCase(name.text) \in HTML_RAW_TEXT_ELEMENTS, LAMBDA isRaw :
    With(IF isRaw THEN readRawText(src, p2, name.text)
         ELSE [token |-> None, pos |-> p2], LAMBDA raw :
        [token |-> Some(Located(OpenTag(name.text, attrs.attrs, selfClosing), start, p2)),
         tk |-> [pos |-> raw.pos,
                 pending |-> raw.token,
                 diagnostics |-> attrs.diagnostics]]))))))

\* nextToken(): the token, None at the end of the source, and the Tokenizer
\* after the call
nextToken(src, tk) ==
    LET start == tk.pos IN
    IF ~IsNone(tk.pending)
    THEN [token |-> tk.pending, tk |-> [tk EXCEPT !.pending = None]]
    ELSE IF eof(src, start) THEN [token |-> None, tk |-> tk]
    ELSE IF match(src, start, "<!--")
    THEN LET r == readUntil(src, start + 4, "-->")
         IN  [token |-> Some(Located(Comment(r.text), start, r.pos)),
              tk |-> [tk EXCEPT !.pos = r.pos]]
    ELSE IF match(src, start, "<![CDATA[")
    THEN LET r == readUntil(src, start + 9, "]]>")
         IN  [token |-> Some(Located(CData(r.text), start, r.pos)),
              tk |-> [tk EXCEPT !.pos = r.pos]]
    ELSE IF match(src, start, "<!") /\ matchCI(src, start, "<!DOCTYPE")
    THEN LET r == readUntil(src, skipWS(src, start + 9), ">")
         IN  [token |-> Some(Located(Doctype(trim(r.text)), start, r.pos)),
              tk |-> [tk EXCEPT !.pos = r.pos]]
    ELSE IF match(src, start, "<!")
    THEN LET r == readUntil(src, start + 2, ">")
         IN  [token |-> Some(Located(Text(""), start, r.pos)),
              tk |-> [tk EXCEPT !.pos = r.pos,
                                !.diagnostics = Append(@, makeError("HXML003",
                                                   trimEnd(r.text), <<start, r.pos>>))]]
    ELSE IF match(src, start, "<?")
    THEN LET r        == readUntil(src, start + 2, "?>")
             raw      == trim(r.text)
             spaceIdx == searchWhiteSpace(raw)
             target   == IF spaceIdx < 0 THEN raw ELSE slice(raw, 0, spaceIdx)
             data     == IF spaceIdx < 0 THEN "" ELSE trim(slice(raw, spaceIdx, Len(raw)))
         IN  [token |-> Some(Located(PI(target, data), start, r.pos)),
              tk |-> [tk EXCEPT !.pos = r.pos]]
    ELSE IF peek(src, start, 0) = "<"
    THEN IF peek(src, start, 1) = "/"
         THEN LET name == readCloseTagName(src, start + 2)
                  p1   == skipWS(src, name.pos)
                  p2   == IF peek(src, p1, 0) = ">" THEN p1 + 1 ELSE p1
              IN  [token |-> Some(Located(CloseTag(name.text), start, p2)),
                   tk |-> [tk EXCEPT !.pos = p2]]
         ELSE LET name == readTagName(src, start + 1)
              IN  IF name.text = ""
                  THEN [token |-> Some(Located(Text("<"), start, start + 1)),
                        tk |-> [tk EXCEPT !.pos = start + 1]]
                  ELSE openTagToken(src, tk, start, name)
    ELSE LET r == readTextUntilLt(src, start)
         IN  [token |-> Some(Located(Text(r.text), start, r.pos)),
              tk |-> [tk EXCEPT !.pos = r.pos]]

\* tokenize(): the tokens pushed by the loop from the Tokenizer tk on, and
\* the Tokenizer at the end
RECURSIVE tokenizeFrom(_, _, _)
tokenizeFrom(src, tk, tokens) ==
    With(nextToken(src, tk), LAMBDA next :
        IF IsNone(next.token) THEN [tokens |-> tokens, tk |-> next.tk]
        ELSE tokenizeFrom(src, next.tk, Append(tokens, The(next.token))))

tokenize(src) == tokenizeFrom(src, NewTokenizer, <<>>)

\* ---------------------------------------------------------------------------
\* parser-internal/html-recovery.ts
\* ---------------------------------------------------------------------------

IsElementFrame(ns, entry) == ns[entry.node].type = "element"

\* One pass of the for loop of autoCloseBefore, from index i down to the
\* frame above the Root: the index to splice at, or 0 when the pass closes
\* nothing.
\* autoClosePass without the break at a strict frame
RECURSIVE autoClosePass_NoWall(_, _, _, _, _)
autoClosePass_NoWall(ns, stk, table, lo, i) ==
    IF i <= 1 THEN 0
    ELSE LET entry == stk[i] IN
         IF ~IsElementFrame(ns, entry) \/ ns[entry.node].name = ""
         THEN autoClosePass_NoWall(ns, stk, table, lo, i - 1)
         ELSE IF entry.mode = "html"
                 /\ lo \in closeSetOf(table, toLowerCase(ns[entry.node].name))
         THEN i
         ELSE autoClosePass_NoWall(ns, stk, table, lo, i - 1)

RECURSIVE autoClosePass(_, _, _, _, _)
autoClosePass(ns, stk, table, lo, i) ==
    IF i <= 1 THEN 0
    ELSE LET entry == stk[i] IN
         IF ~IsElementFrame(ns, entry) \/ ns[entry.node].name = ""
         THEN autoClosePass(ns, stk, table, lo, i - 1)
         ELSE IF entry.mode = "xml" THEN 0
         ELSE IF lo \in closeSetOf(table, toLowerCase(ns[entry.node].name))
         THEN i
         ELSE autoClosePass(ns, stk, table, lo, i - 1)

\* autoCloseBefore without the retry: a single pass (didClose never looped on)
autoCloseBefore_SinglePass(ns, openName, stk, table) ==
    LET lo == toLowerCase(openName)
        i  == autoClosePass(ns, stk, table, lo, Len(stk))
    IN  IF i = 0 THEN stk ELSE SubSeq(stk, 1, i - 1)

\* autoCloseBefore that looks at the top frame alone, once
autoCloseBefore_TopFrameOnly(ns, openName, stk, table) ==
    LET top == stk[Len(stk)] IN
    IF /\ Len(stk) > 1
       /\ IsElementFrame(ns, top)
       /\ top.mode = "html"
       /\ toLowerCase(openName) \in closeSetOf(table, toLowerCase(ns[top.node].name))
    THEN SubSeq(stk, 1, Len(stk) - 1)
    ELSE stk

\* The number of rounds of the loop while (didClose), the last one, which
\* closes nothing, included
RECURSIVE autoCloseBeforePasses(_, _, _, _)
autoCloseBeforePasses(ns, openName, stk, table) ==
    LET lo == toLowerCase(openName)
        i  == autoClosePass(ns, stk, table, lo, Len(stk))
    IN  IF i = 0 THEN 1
        ELSE 1 + autoCloseBeforePasses(ns, openName, SubSeq(stk, 1, i - 1), table)

RECURSIVE autoCloseBefore(_, _, _, _)
autoCloseBefore(ns, openName, stk, table) ==
    LET lo == toLowerCase(openName)
        i  == autoClosePass(ns, stk, table, lo, Len(stk))
    IN  IF i = 0 THEN stk
        ELSE autoCloseBefore(ns, openName, SubSeq(stk, 1, i - 1), table)

\* pushRecent that drops the new name once the buffer is full
pushRecent_NewestDropped(recent, name) ==
    IF Len(recent) >= RecentCapacity THEN recent ELSE Append(recent, name)

\* Array.shift once the buffer is longer than the capacity
pushRecent(recent, name) ==
    LET r == Append(recent, name)
    IN  IF Len(r) > RecentCapacity THEN Tail(r) ELSE r

RECURSIVE rememberImplicitHtmlClosures(_, _, _)
rememberImplicitHtmlClosures(ns, entries, recent) ==
    IF Len(entries) = 0 THEN recent
    ELSE LET entry == Head(entries) IN
         IF ~IsElementFrame(ns, entry) \/ entry.mode # "html"
            \/ ns[entry.node].name = ""
         THEN rememberImplicitHtmlClosures(ns, Tail(entries), recent)
         ELSE rememberImplicitHtmlClosures(ns, Tail(entries),
                  pushRecent(recent, toLowerCase(ns[entry.node].name)))

\* recent.lastIndexOf(lower), 0 when absent
lastIndexOf(recent, lower) ==
    IF \E i \in 1..Len(recent) : recent[i] = lower
    THEN CHOOSE i \in 1..Len(recent) :
            /\ recent[i] = lower
            /\ \A j \in (i + 1)..Len(recent) : recent[j] # lower
    ELSE 0

removeAt(seq, i) == SubSeq(seq, 1, i - 1) \o SubSeq(seq, i + 1, Len(seq))

\* consumeImplicitHtmlClosure without the test of the formatting names
consumeImplicitHtmlClosure_AnyName(closeName, recent, adoptionFormattingTags) ==
    LET lower == toLowerCase(closeName)
        index == lastIndexOf(recent, lower)
    IN  IF index = 0
        THEN [consumed |-> FALSE, recent |-> recent]
        ELSE [consumed |-> TRUE, recent |-> removeAt(recent, index)]

\* consumeImplicitHtmlClosure: whether the close tag is consumed, and the
\* buffer afterwards.
consumeImplicitHtmlClosure(closeName, recent, adoptionFormattingTags) ==
    LET lower == toLowerCase(closeName)
        index == lastIndexOf(recent, lower)
    IN  IF lower \notin adoptionFormattingTags
        THEN [consumed |-> FALSE, recent |-> recent]
        ELSE IF index = 0
        THEN [consumed |-> FALSE, recent |-> recent]
        ELSE [consumed |-> TRUE, recent |-> removeAt(recent, index)]

\* ---------------------------------------------------------------------------
\* parser-internal/implied-elements.ts
\* ---------------------------------------------------------------------------

\* A source range is the pair <<token, attribute>>: the place in the stream of
\* the token it covers and, for an attribute, its place in the tag.
TokenLoc(k) == <<k, 0>>
AttrLoc(k, i) == <<k, i>>
emptyRange == TokenLoc(0)

\* The range of an implied element starts at its first child.
createImpliedHtmlElement(ns, name, children) ==
    [type |-> "element", name |-> name, prefix |-> None, localName |-> name,
     attrs |-> <<>>, namespaces |-> EmptyMap, selfClosing |-> FALSE,
     isVoid |-> FALSE, children |-> children, mode |-> "html",
     loc |-> IF Len(children) > 0 THEN ns[children[1]].loc ELSE emptyRange]

\* ---------------------------------------------------------------------------
\* parser.ts
\* ---------------------------------------------------------------------------

current(stk) == stk[Len(stk)]

\* appendChild(parent, child) for a child stored at index id
appendChild(ns, parent, id) ==
    [ns EXCEPT ![parent].children = Append(@, id)]

\* appendChild that pushes to the array the parent holds, the shared array of
\* a childless node included
appendChildShared_InPlace(shared, children, child) ==
    IF children = <<>> THEN Append(shared, child) ELSE shared

\* Lines 90-95, as appendChild acts on EMPTY_CHILDREN: a parent whose children
\* is that array (children holds what the parent got of its own, nothing for
\* a childless node) is given a new array first, so the push goes to an array
\* of the parent in either case.
appendChildShared(shared, children, child) ==
    IF children = <<>> THEN shared ELSE shared

\* EMPTY_CHILDREN after the appendChild calls that added the nodes from index
\* k on to the tree ns, in the order of the calls
RECURSIVE appendChildCalls(_, _, _)
appendChildCalls(shared, ns, k) ==
    IF k > Len(ns) THEN shared
    ELSE LET parent  == CHOOSE q \in 1..Len(ns) :
                            /\ ns[q].type \in {"root", "element"}
                            /\ \E i \in 1..Len(ns[q].children) : ns[q].children[i] = k
             earlier == SelectSeq(ns[parent].children, LAMBDA c : c < k)
         IN  appendChildCalls(appendChildShared(shared, earlier, k), ns, k + 1)

\* addNode that puts the new node before the children the parent has
addNode_AtFront(ns, parent, node) ==
    [Append(ns, node) EXCEPT ![parent].children = <<Len(ns) + 1>> \o @]

\* addNode that also writes the declarations of the new element into the map
\* of the element it is appended to
addNode_DeclaringInParent(ns, parent, node) ==
    LET appended == appendChild(Append(ns, node), parent, Len(ns) + 1) IN
    IF ns[parent].type = "element" /\ node.type = "element"
    THEN [appended EXCEPT ![parent].namespaces =
             [k \in DOMAIN @ \cup DOMAIN node.namespaces |->
                 IF k \in DOMAIN node.namespaces THEN node.namespaces[k] ELSE @[k]]]
    ELSE appended

\* Appends a new node under parent; the node gets the next index.
addNode(ns, parent, node) ==
    appendChild(Append(ns, node), parent, Len(ns) + 1)

\* Lines 186-194: the namespace declarations of an open tag
RECURSIVE collectNsDecls(_, _)
collectNsDecls(attrs, decls) ==
    IF Len(attrs) = 0 THEN decls
    ELSE LET attr == Head(attrs)
             v    == IF IsNone(attr.value) THEN "" ELSE The(attr.value)
         IN  IF startsWith(attr.name, "xmlns:")
             THEN collectNsDecls(Tail(attrs), MapSet(decls, sliceFrom(attr.name, 6), v))
             ELSE IF attr.name = "xmlns"
             THEN collectNsDecls(Tail(attrs), MapSet(decls, "#default", v))
             ELSE collectNsDecls(Tail(attrs), decls)

\* Lines 168-170
modeSwitchXmlOf(token, stk) ==
    toLowerCase(token.name) = HTML_MODE_SWITCH_TAG /\ current(stk).mode = "html"

xmlModeOf(token, stk) ==
    isXmlName(token.name) \/ modeSwitchXmlOf(token, stk) \/ current(stk).xmlRegion

\* Line 227
isVoidOf(token, xmlMode) ==
    (~xmlMode /\ toLowerCase(token.name) \in HTML_VOID_ELEMENTS) \/ token.selfClosing

\* The region flag taken from the marker alone, not inherited
regionOfPushedFrame_NotInherited(stk, modeSwitchXml) == modeSwitchXml

\* Line 253
regionOfPushedFrame(stk, modeSwitchXml) == current(stk).xmlRegion \/ modeSwitchXml

Frame(node, mode, namespaces, xmlRegion) ==
    [node |-> node, mode |-> mode, namespaces |-> namespaces, xmlRegion |-> xmlRegion]

\* The implied colgroup of lines 201-217 under any parent
impliedColgroup_AnyParent(ns, stk, token, xmlMode) ==
    LET parent == current(stk).node IN
    IF ~xmlMode /\ toLowerCase(token.name) = "col"
    THEN [nodes |-> addNode(ns, parent, createImpliedHtmlElement(ns, "colgroup", <<>>)),
          stack |-> Append(stk, Frame(Len(ns) + 1, "html", EmptyMap, current(stk).xmlRegion))]
    ELSE [nodes |-> ns, stack |-> stk]

\* Lines 201-217: the implied colgroup; a state [nodes, stack]
impliedColgroup(ns, stk, token, xmlMode) ==
    LET parent == current(stk).node IN
    IF /\ ~xmlMode
       /\ toLowerCase(token.name) = "col"
       /\ ns[parent].type = "element"
       /\ ns[parent].mode = "html"
       /\ toLowerCase(ns[parent].name) = "table"
    THEN [nodes |-> addNode(ns, parent, createImpliedHtmlElement(ns, "colgroup", <<>>)),
          stack |-> Append(stk, Frame(Len(ns) + 1, "html", EmptyMap, current(stk).xmlRegion))]
    ELSE [nodes |-> ns, stack |-> stk]

\* a.loc: the source range of the i-th attribute of a token of the tokenizer,
\* its place in the tag for a token of the input vocabulary
attrLoc(token, loc, i) ==
    IF "loc" \in DOMAIN token.attrs[i] THEN token.attrs[i].loc ELSE AttrLoc(loc[1], i)

\* Lines 220-224: token attributes to AST attributes, a null value kept and
\* any other value decoded
astAttrs(token, loc) ==
    [i \in 1..Len(token.attrs) |->
        [name |-> token.attrs[i].name,
         value |-> IF IsNone(token.attrs[i].value) THEN None
                   ELSE Some(reportInvalidReferences(The(token.attrs[i].value),
                                                     attrLoc(token, loc, i), <<>>).value),
         loc |-> attrLoc(token, loc, i)]]

\* Lines 220-224: the diagnostics list after the attributes from the i-th on
\* have been converted
RECURSIVE attrReferenceDiagnostics(_, _, _, _)
attrReferenceDiagnostics(token, loc, i, diags) ==
    IF i > Len(token.attrs) THEN diags
    ELSE attrReferenceDiagnostics(token, loc, i + 1,
            IF IsNone(token.attrs[i].value) THEN diags
            ELSE reportInvalidReferences(The(token.attrs[i].value),
                                         attrLoc(token, loc, i), diags).diagnostics)

\* case 'OPEN_TAG' (lines 167-257): the state after the handler
openTag(ns, stk, diags, token, loc) ==
    LET modeSwitchXml == modeSwitchXmlOf(token, stk)
        xmlMode  == xmlModeOf(token, stk)
        mode     == IF xmlMode THEN "xml" ELSE "html"
        split    == splitName(token.name)
        diags1   == IF xmlMode /\ includes(split.localName, ":")
                    THEN Append(diags, makeError("HXML104", token.name, loc))
                    ELSE diags
        nsDecls  == collectNsDecls(token.attrs, EmptyMap)
        stk1     == IF ~xmlMode
                    THEN autoCloseBefore(ns, token.name, stk, HTML_AUTO_CLOSE_BEFORE)
                    ELSE stk
        col      == impliedColgroup(ns, stk1, token, xmlMode)
        isVoid   == isVoidOf(token, xmlMode)
        element  == [type |-> "element", name |-> token.name,
                     prefix |-> split.prefix, localName |-> split.localName,
                     attrs |-> astAttrs(token, loc), namespaces |-> nsDecls,
                     selfClosing |-> token.selfClosing, isVoid |-> isVoid,
                     children |-> <<>>, mode |-> mode, loc |-> loc]
        ns2      == addNode(col.nodes, current(col.stack).node, element)
        stk2     == IF ~isVoid
                    THEN Append(col.stack,
                                Frame(Len(col.nodes) + 1, mode, nsDecls,
                                      regionOfPushedFrame(col.stack, modeSwitchXml)))
                    ELSE col.stack
    IN  [nodes |-> ns2, stack |-> stk2,
         diagnostics |-> attrReferenceDiagnostics(token, loc, 1, diags1)]


\* Lines 263-275: the index of the matching frame, 0 when there is none
RECURSIVE findMatch(_, _, _, _)
findMatch(ns, stk, name, i) ==
    IF i <= 1 THEN 0
    ELSE LET entry == stk[i] IN
         IF ~IsElementFrame(ns, entry) THEN findMatch(ns, stk, name, i - 1)
         ELSE LET stackName == ns[entry.node].name IN
              IF isXmlName(name)
              THEN IF stackName = name THEN i
                   ELSE findMatch(ns, stk, name, i - 1)
              ELSE IF toLowerCase(stackName) = toLowerCase(name) THEN i
                   ELSE findMatch(ns, stk, name, i - 1)

foundOf(ns, stk, token) == findMatch(ns, stk, token.name, Len(stk))

\* unclosedDiagnostics without the test of the frame's mode
RECURSIVE unclosedDiagnostics_AnyMode(_, _)
unclosedDiagnostics_AnyMode(ns, unclosed) ==
    IF Len(unclosed) = 0 THEN <<>>
    ELSE LET entry == Head(unclosed) IN
         (IF IsElementFrame(ns, entry)
          THEN <<makeError("HXML102", ns[entry.node].name, ns[entry.node].loc)>>
          ELSE <<>>)
         \o unclosedDiagnostics_AnyMode(ns, Tail(unclosed))

\* Lines 296-305: one HXML102 for each strict element frame among unclosed
RECURSIVE unclosedDiagnostics(_, _)
unclosedDiagnostics(ns, unclosed) ==
    IF Len(unclosed) = 0 THEN <<>>
    ELSE LET entry == Head(unclosed) IN
         (IF entry.mode = "xml" /\ IsElementFrame(ns, entry)
          THEN <<makeError("HXML102", ns[entry.node].name, ns[entry.node].loc)>>
          ELSE <<>>)
         \o unclosedDiagnostics(ns, Tail(unclosed))

\* closeTag that pops the current frame for a close tag that matches none
closeTag_UnmatchedPopsCurrent(ns, stk, diags, recent, token, loc) ==
    LET found    == foundOf(ns, stk, token)
        unclosed == SubSeq(stk, found + 1, Len(stk))
    IN  IF found = 0
        THEN [stack |-> IF Len(stk) > 1 THEN SubSeq(stk, 1, Len(stk) - 1) ELSE stk,
              diagnostics |-> Append(diags, makeError("HXML101", token.name, loc)),
              recent |-> recent]
        ELSE [stack |-> SubSeq(stk, 1, found - 1),
              diagnostics |-> diags \o unclosedDiagnostics(ns, unclosed),
              recent |-> IF found < Len(stk)
                         THEN rememberImplicitHtmlClosures(ns, unclosed, recent)
                         ELSE recent]

\* case 'CLOSE_TAG' (lines 259-311): the state after the handler
closeTag(ns, stk, diags, recent, token, loc) ==
    LET xmlExpected == isXmlName(token.name)
        found       == foundOf(ns, stk, token)
        consume     == consumeImplicitHtmlClosure(token.name, recent,
                                                  ADOPTION_FORMATTING_TAGS)
        unclosed    == SubSeq(stk, found + 1, Len(stk))
    IN  IF found = 0
        THEN IF ~xmlExpected /\ consume.consumed
             THEN [stack |-> stk, diagnostics |-> diags, recent |-> consume.recent]
             ELSE [stack |-> stk,
                   diagnostics |-> Append(diags, makeError("HXML101", token.name, loc)),
                   recent |-> recent]
        ELSE IF found < Len(stk)
        THEN [stack |-> SubSeq(stk, 1, found - 1),
              diagnostics |-> diags \o unclosedDiagnostics(ns, unclosed),
              recent |-> rememberImplicitHtmlClosures(ns, unclosed, recent)]
        ELSE [stack |-> SubSeq(stk, 1, found - 1), diagnostics |-> diags,
              recent |-> recent]

\* neverClosedDiagnostics without the test of the frame's mode
RECURSIVE neverClosedDiagnostics_AnyMode(_, _, _)
neverClosedDiagnostics_AnyMode(ns, stk, i) ==
    IF i > Len(stk) THEN <<>>
    ELSE LET entry == stk[i] IN
         (IF IsElementFrame(ns, entry)
          THEN <<makeError("HXML103", ns[entry.node].name, ns[entry.node].loc)>>
          ELSE <<>>)
         \o neverClosedDiagnostics_AnyMode(ns, stk, i + 1)

\* Lines 317-327: one HXML103 for each strict element frame left open
RECURSIVE neverClosedDiagnostics(_, _, _)
neverClosedDiagnostics(ns, stk, i) ==
    IF i > Len(stk) THEN <<>>
    ELSE LET entry == stk[i] IN
         (IF entry.mode = "xml" /\ IsElementFrame(ns, entry)
          THEN <<makeError("HXML103", ns[entry.node].name, ns[entry.node].loc)>>
          ELSE <<>>)
         \o neverClosedDiagnostics(ns, stk, i + 1)

\* ---------------------------------------------------------------------------
\* parser-internal/html-normalization.ts
\* ---------------------------------------------------------------------------

HTML_HEAD_ONLY_TAGS ==
    {"base", "link", "meta", "noscript", "script", "style", "template", "title"}

HTML_DOCUMENT_HINT_TAGS == {"html", "head", "body", "title", "meta", "link", "base"}

IsHtmlElementNamed(ns, id, names) ==
    /\ ns[id].type = "element"
    /\ ns[id].mode = "html"
    /\ toLowerCase(ns[id].name) \in names

\* splitHeadBody with the head section ended by elements alone
RECURSIVE splitHeadBodyFrom_ElementsEndHead(_, _, _, _)
splitHeadBodyFrom_ElementsEndHead(ns, list, i, inBody) ==
    IF i > Len(list) THEN [head |-> <<>>, body |-> <<>>]
    ELSE LET isHeadElement == ns[list[i]].type = "element"
                              /\ ns[list[i]].mode = "html"
                              /\ toLowerCase(ns[list[i]].name) \in
                                    {"base", "link", "meta", "noscript", "script",
                                     "style", "template", "title"}
             toHead == ~inBody /\ isHeadElement
             rest   == splitHeadBodyFrom_ElementsEndHead(ns, list, i + 1,
                          inBody \/ (~toHead /\ ns[list[i]].type = "element"))
         IN  IF toHead
             THEN [head |-> <<list[i]>> \o rest.head, body |-> rest.body]
             ELSE [head |-> rest.head, body |-> <<list[i]>> \o rest.body]

\* splitHeadBody: the loop from position i on, inBody as the loop carries it
RECURSIVE splitHeadBodyFrom(_, _, _, _)
splitHeadBodyFrom(ns, list, i, inBody) ==
    IF i > Len(list) THEN [head |-> <<>>, body |-> <<>>]
    ELSE LET isHeadElement == IsHtmlElementNamed(ns, list[i], HTML_HEAD_ONLY_TAGS)
             toHead == ~inBody /\ isHeadElement
             rest   == splitHeadBodyFrom(ns, list, i + 1, inBody \/ ~toHead)
         IN  IF toHead
             THEN [head |-> <<list[i]>> \o rest.head, body |-> rest.body]
             ELSE [head |-> rest.head, body |-> <<list[i]>> \o rest.body]

splitHeadBody(ns, list) == splitHeadBodyFrom(ns, list, 1, FALSE)

\* Array.find: the first element of list satisfying Test, 0 when none
FindFirst(list, Test(_)) ==
    IF \E i \in 1..Len(list) : Test(list[i])
    THEN list[CHOOSE i \in 1..Len(list) :
                 Test(list[i]) /\ \A j \in 1..(i - 1) : ~Test(list[j])]
    ELSE 0

\* The children before the first occurrence of id (lines 185-189)
RECURSIVE takeUntil(_, _)
takeUntil(list, id) ==
    IF Len(list) = 0 \/ Head(list) = id THEN <<>>
    ELSE <<Head(list)>> \o takeUntil(Tail(list), id)

\* Lines 144-151: no html element at top level
wrapInHtml(ns, doctypes, contentNodes) ==
    LET parts == splitHeadBody(ns, contentNodes)
        n     == Len(ns)
        ns1   == Append(ns, createImpliedHtmlElement(ns, "head", parts.head))
        ns2   == Append(ns1, createImpliedHtmlElement(ns1, "body", parts.body))
        ns3   == Append(ns2, createImpliedHtmlElement(ns2, "html", <<n + 1, n + 2>>))
    IN  [ns3 EXCEPT ![ROOT].children = doctypes \o <<n + 3>>]

\* Lines 154-192: an html element exists
fillHtml(ns, existingHtml) ==
    LET kids    == ns[existingHtml].children
        IsHead(c) == IsHtmlElementNamed(ns, c, {"head"})
        IsBody(c) == IsHtmlElementNamed(ns, c, {"body"})
        hasHead == \E i \in 1..Len(kids) : IsHead(kids[i])
        hasBody == \E i \in 1..Len(kids) : IsBody(kids[i])
        n       == Len(ns)
    IN  IF hasHead /\ hasBody THEN ns
        ELSE IF ~hasHead /\ ~hasBody
        THEN LET parts == splitHeadBody(ns, kids)
                 ns1   == Append(ns, createImpliedHtmlElement(ns, "head", parts.head))
                 ns2   == Append(ns1, createImpliedHtmlElement(ns1, "body", parts.body))
             IN  [ns2 EXCEPT ![existingHtml].children = <<n + 1, n + 2>>]
        ELSE IF hasHead /\ ~hasBody
        THEN LET headNode  == FindFirst(kids, IsHead)
                 bodyNodes == SelectSeq(kids, LAMBDA c : c # headNode)
                 ns1 == Append(ns, createImpliedHtmlElement(ns, "body", bodyNodes))
             IN  [ns1 EXCEPT ![existingHtml].children = <<headNode, n + 1>>]
        ELSE LET bodyNode   == FindFirst(kids, IsBody)
                 beforeBody == takeUntil(kids, bodyNode)
                 parts      == splitHeadBody(ns, beforeBody)
                 ns1 == Append(ns, createImpliedHtmlElement(ns, "head", parts.head))
             IN  [ns1 EXCEPT ![existingHtml].children = <<n + 1, bodyNode>>]

ensureHtmlOptionalContainers(ns) ==
    LET currentChildren == ns[ROOT].children
        doctypes     == SelectSeq(currentChildren, LAMBDA c : ns[c].type = "doctype")
        contentNodes == SelectSeq(currentChildren, LAMBDA c : ns[c].type # "doctype")
        shouldNormalize ==
            \/ Len(doctypes) > 0
            \/ \E i \in 1..Len(contentNodes) :
                  IsHtmlElementNamed(ns, contentNodes[i], HTML_DOCUMENT_HINT_TAGS)
        IsHtml(c)    == IsHtmlElementNamed(ns, c, {"html"})
        existingHtml == FindFirst(contentNodes, IsHtml)
    IN  IF Len(contentNodes) = 0 THEN ns
        ELSE IF ~shouldNormalize THEN ns
        ELSE IF existingHtml = 0 THEN wrapInHtml(ns, doctypes, contentNodes)
        ELSE fillHtml(ns, existingHtml)


\* ---------------------------------------------------------------------------
\* validator.ts
\* ---------------------------------------------------------------------------

\* options?.enforceXmlIdUniqueness ?? true
enforceXmlIdUniqueness ==
    IF "enforceXmlIdUniqueness" \in DOMAIN validateOptions
    THEN validateOptions.enforceXmlIdUniqueness ELSE TRUE

\* The innermost scope of the stack that declares prefix, 0 when none does
RECURSIVE scopeLookup(_, _, _)
scopeLookup(scopes, prefix, i) ==
    IF i < 1 THEN 0
    ELSE IF MapHas(scopes[i], prefix) THEN i
    ELSE scopeLookup(scopes, prefix, i - 1)

\* resolvePrefix: the URI (None for null) and the cache afterwards
resolvePrefix(scopes, cache, prefix) ==
    IF MapHas(cache, prefix)
    THEN [uri |-> cache[prefix], cache |-> cache]
    ELSE LET i   == scopeLookup(scopes, prefix, Len(scopes))
             uri == IF i = 0 THEN None ELSE Some(scopes[i][prefix])
         IN  [uri |-> uri, cache |-> MapSet(cache, prefix, uri)]

\* !uri: null or the empty string
isFalsyUri(uri) == IsNone(uri) \/ The(uri) = ""

\* Lines 127-137
elementPrefixDiagnostics(element, resolved) ==
    IF isFalsyUri(resolved.uri)
    THEN <<makeError("HXML201", The(element.prefix), element.loc)>>
    ELSE <<>>

\* Lines 140-163: duplicate namespace declarations on one element
RECURSIVE nsDeclDiagnostics(_, _, _)
nsDeclDiagnostics(attrs, i, seenNsDecls) ==
    IF i > Len(attrs) THEN <<>>
    ELSE LET attr == attrs[i]
             key  == IF attr.name = "xmlns" THEN "#default"
                     ELSE IF startsWith(attr.name, "xmlns:")
                     THEN sliceFrom(attr.name, 6)
                     ELSE ""
         IN  IF key = "" THEN nsDeclDiagnostics(attrs, i + 1, seenNsDecls)
             ELSE IF key \in seenNsDecls
             THEN <<makeError("HXML205", key, attr.loc)>>
                  \o nsDeclDiagnostics(attrs, i + 1, seenNsDecls)
             ELSE nsDeclDiagnostics(attrs, i + 1, seenNsDecls \cup {key})

\* Lines 167-178
duplicateAttrDiagnostics(attrs) ==
    LET Dup(i) == \E j \in 1..(i - 1) : attrs[j].name = attrs[i].name
        RECURSIVE from(_)
        from(i) == IF i > Len(attrs) THEN <<>>
                   ELSE (IF Dup(i)
                         THEN <<makeError("HXML202", attrs[i].name, attrs[i].loc)>>
                         ELSE <<>>) \o from(i + 1)
    IN  from(1)

\* Lines 181-190
booleanAttrDiagnostics(attrs) ==
    LET RECURSIVE from(_)
        from(i) == IF i > Len(attrs) THEN <<>>
                   ELSE (IF IsNone(attrs[i].value) /\ ~startsWith(attrs[i].name, "xmlns")
                         THEN <<makeError("HXML203", attrs[i].name, attrs[i].loc)>>
                         ELSE <<>>) \o from(i + 1)
    IN  from(1)

\* Lines 192-206 without seenXmlIds.add: no value is ever recorded
xmlIdDiagnostics_NeverRecorded(attrs, i, seenXmlIds) ==
    [diags |-> <<>>, seen |-> seenXmlIds]

\* Lines 192-206: the diagnostics and the xml:id values seen afterwards
RECURSIVE xmlIdDiagnostics(_, _, _)
xmlIdDiagnostics(attrs, i, seenXmlIds) ==
    IF i > Len(attrs) THEN [diags |-> <<>>, seen |-> seenXmlIds]
    ELSE LET attr == attrs[i] IN
         IF attr.name # "xml:id" \/ IsNone(attr.value)
         THEN xmlIdDiagnostics(attrs, i + 1, seenXmlIds)
         ELSE IF The(attr.value) \in seenXmlIds
         THEN LET rest == xmlIdDiagnostics(attrs, i + 1, seenXmlIds)
              IN  [diags |-> <<makeError("HXML206", The(attr.value), attr.loc)>> \o rest.diags,
                   seen  |-> rest.seen]
         ELSE xmlIdDiagnostics(attrs, i + 1, seenXmlIds \cup {The(attr.value)})

\* attr.name.split(':')[0]
attrPrefixOf(name) == SubSeq(name, 1, indexOf(name, ":") - 1)

\* Lines 259-272: prefixed attributes, the cache threaded through the loop
RECURSIVE attrPrefixDiagnostics(_, _, _, _)
attrPrefixDiagnostics(attrs, i, scopes, cache) ==
    IF i > Len(attrs) THEN <<>>
    ELSE LET attr == attrs[i] IN
         IF /\ includes(attr.name, ":")
            /\ ~startsWith(attr.name, "xmlns:")
            /\ ~startsWith(attr.name, "xml:")
         THEN LET attrPrefix == attrPrefixOf(attr.name)
                  resolved   == resolvePrefix(scopes, cache, attrPrefix)
              IN  (IF isFalsyUri(resolved.uri)
                   THEN <<makeError("HXML204", attrPrefix, attr.loc)>>
                   ELSE <<>>)
                  \o attrPrefixDiagnostics(attrs, i + 1, scopes, resolved.cache)
         ELSE attrPrefixDiagnostics(attrs, i + 1, scopes, cache)

\* Line 123: the element's declarations are pushed on the scope stack
pushScope(scopeStack, element) == Append(scopeStack, element.namespaces)

\* The element's scope left on the stack
popScope_Kept(scopes) == scopes

\* Line 278: the element's scope is popped
popScope(scopes) == SubSeq(scopes, 1, Len(scopes) - 1)

RECURSIVE walkChildren(_, _, _, _, _, _)
RECURSIVE validateElement(_, _, _, _)

\* validateElement: [diags, seen, scopes] after the element and its subtree
validateElement(ns, id, scopeStack, seenXmlIds) ==
    LET element == ns[id]
        scopes  == pushScope(scopeStack, element)
        hasPrefix == ~IsNone(element.prefix) /\ The(element.prefix) # ""
        resolved == IF hasPrefix
                    THEN resolvePrefix(scopes, EmptyMap, The(element.prefix))
                    ELSE [uri |-> None, cache |-> EmptyMap]
        d201 == IF hasPrefix THEN elementPrefixDiagnostics(element, resolved) ELSE <<>>
        d205 == nsDeclDiagnostics(element.attrs, 1, {})
        ids  == IF element.mode = "xml" /\ enforceXmlIdUniqueness
                THEN xmlIdDiagnostics(element.attrs, 1, seenXmlIds)
                ELSE [diags |-> <<>>, seen |-> seenXmlIds]
        dXml == IF element.mode = "xml"
                THEN duplicateAttrDiagnostics(element.attrs)
                     \o booleanAttrDiagnostics(element.attrs) \o ids.diags
                ELSE <<>>
        d204 == attrPrefixDiagnostics(element.attrs, 1, scopes, resolved.cache)
        sub  == walkChildren(ns, element.children, 1, scopes, element.mode, ids.seen)
    IN  [diags  |-> d201 \o d205 \o dXml \o d204 \o sub.diags,
         seen   |-> sub.seen,
         scopes |-> popScope(sub.scopes)]

\* walkChildren from child i on: [diags, seen, scopes] after the walk
walkChildren(ns, children, i, scopeStack, parentMode, seenXmlIds) ==
    IF i > Len(children)
    THEN [diags |-> <<>>, seen |-> seenXmlIds, scopes |-> scopeStack]
    ELSE LET node == ns[children[i]]
             here == IF node.type = "element"
                     THEN validateElement(ns, children[i], scopeStack, seenXmlIds)
                     ELSE IF node.type = "cdata" /\ parentMode = "html"
                     THEN [diags |-> <<makeWarning("HXML301", "", node.loc)>>,
                           seen |-> seenXmlIds, scopes |-> scopeStack]
                     ELSE IF node.type = "doctype" /\ toLowerCase(node.value) # "html"
                     THEN [diags |-> <<makeWarning("HXML302", node.value, node.loc)>>,
                           seen |-> seenXmlIds, scopes |-> scopeStack]
                     ELSE [diags |-> <<>>, seen |-> seenXmlIds, scopes |-> scopeStack]
             rest == walkChildren(ns, children, i + 1, here.scopes, parentMode, here.seen)
         IN  [diags |-> here.diags \o rest.diags, seen |-> rest.seen,
              scopes |-> rest.scopes]

validate(ns) ==
    walkChildren(ns, ns[ROOT].children, 1, <<PREDECLARED_NAMESPACES>>, "html", {}).diags


\* ---------------------------------------------------------------------------
\* Inputs
\* ---------------------------------------------------------------------------

NoAttrs == <<>>
Open(n) == OpenTag(n, NoAttrs, FALSE)
OpenSelfClosing(n) == OpenTag(n, NoAttrs, TRUE)
Value(v) == Some(v)

\* Block, list and table tags around a strict element
BlockVocabulary ==
    {Open("p"), Open("div"), Open("d:c"), CloseTag("d:c"), CloseTag("div"),
     Open("LI"), Open("li"), Open("tr"), Open("caption")}

\* The mode-switch marker and the letter case of strict close tags
RegionVocabulary ==
    {Open("xml"), OpenSelfClosing("XML"), Open("Item"), CloseTag("item"),
     CloseTag("Item"), CloseTag("xml"), Open("d:c"), CloseTag("D:C"),
     CloseTag("d:c"), Open("p")}

\* Misnested formatting tags
FormattingVocabulary ==
    {Open("b"), Open("I"), CloseTag("b"), CloseTag("i"), Open("p"),
     CloseTag("p"), CloseTag("em"), Open("d:c")}

\* Document structure
DocumentVocabulary ==
    {Doctype("html"), Open("html"), Open("head"), Open("body"), CloseTag("head"),
     CloseTag("body"), CloseTag("html"), Open("meta"), Open("p"), Text("x"),
     Comment("c")}

\* The document containers, opened more than once
ContainerVocabulary ==
    {Open("html"), Open("head"), Open("body"), CloseTag("body")}

\* Character references in text and in attribute values
ReferenceVocabulary ==
    {Text("&#60;"), Text("&#x110000;"), Text("&#55296;x&#65;"), Text("&#x10FFFF;"),
     Text("&#xDFFF;&#57344;"), Text("&amp;#60;"), Text("&#X41;&#xd7ff;"),
     OpenTag("a", <<Attr("t", Value("&#xD800;&#x3c;")), Attr("u", None)>>, FALSE),
     Open("d:c"), Comment("&#x110000;")}

\* Namespace declarations, undeclarations and prefixed names
NamespaceVocabulary ==
    {OpenTag("r", <<Attr("xmlns:p", Value("urn:x"))>>, FALSE),
     OpenTag("a", <<Attr("xmlns:p", Value(""))>>, FALSE),
     OpenTag("p:a", <<Attr("xmlns:p", Value("urn:y"))>>, FALSE),
     OpenTag("e", <<Attr("p:k", Value("v")), Attr("xml:lang", Value("en"))>>, TRUE),
     OpenSelfClosing("p:x"), Open("p:x"), OpenSelfClosing("xml:x"),
     CloseTag("a"), CloseTag("r"), CloseTag("p:a")}

\* Tables, columns and column groups, around a strict element
TableVocabulary ==
    {Open("table"), Open("TABLE"), Open("col"), Open("COL"), Open("colgroup"),
     Open("tr"), Open("d:c"), CloseTag("table")}

\* xml:id on strict and lenient elements, with and without a value
XmlIdVocabulary ==
    {OpenTag("d:a", <<Attr("xml:id", Value("i"))>>, FALSE),
     OpenTag("d:b", <<Attr("xml:id", Value("i")), Attr("xml:id", Value("j"))>>, TRUE),
     OpenTag("d:c", <<Attr("xml:id", Value("j")), Attr("id", Value("i"))>>, TRUE),
     OpenTag("d:e", <<Attr("xml:id", None)>>, TRUE),
     OpenTag("p", <<Attr("xml:id", Value("i"))>>, FALSE),
     OpenTag("P", <<Attr("xml:id", Value("k"))>>, FALSE),
     CloseTag("d:a")}

\* Leaf nodes and white space
LeafVocabulary ==
    {Text(" "), Text("x"), Comment("c"), CData("d"), PI("xml", ""),
     Doctype("HTML PUBLIC"), Open("p"), Open("d:c"), CloseTag("d:c")}

\* Lists nested in list items, with their close tags
ListVocabulary ==
    {Open("ul"), Open("li"), Text("A"), CloseTag("li"), CloseTag("ul")}

\* Formatting elements left open in a <b>, enough of them to fill the recent
\* force-closed buffer
RecentVocabulary ==
    {Open("b"), Open("i"), Open("em"), CloseTag("b"), CloseTag("i"), CloseTag("em")}

\* The streams explored over the recent-buffer vocabulary: <b>, then <i> and
\* <em> in turns, then </b>, then one of </i> and </em> over and over.  The
\* other vocabularies are explored in every order.
mayFollow(v, prev, token) ==
    v = RecentVocabulary =>
        IF prev = NoToken THEN token = Open("b")
        ELSE IF prev = Open("b") THEN token \in {Open("i"), Open("em"), CloseTag("b")}
        ELSE IF prev = Open("i") THEN token \in {Open("em"), CloseTag("b")}
        ELSE IF prev = Open("em") THEN token \in {Open("i"), CloseTag("b")}
        ELSE IF prev = CloseTag("b") THEN token \in {CloseTag("i"), CloseTag("em")}
        ELSE token = prev

Profile(v, f, w) == [vocabulary |-> v, fragment |-> f, preserveWhitespace |-> w]

Profiles ==
    {Profile(BlockVocabulary, TRUE, FALSE),
     Profile(RegionVocabulary, TRUE, FALSE),
     Profile(FormattingVocabulary, TRUE, FALSE),
     Profile(DocumentVocabulary, FALSE, FALSE),
     Profile(ContainerVocabulary, FALSE, FALSE),
     Profile(ReferenceVocabulary, TRUE, FALSE),
     Profile(NamespaceVocabulary, FALSE, FALSE),
     Profile(LeafVocabulary, FALSE, FALSE),
     Profile(TableVocabulary, TRUE, FALSE),
     Profile(XmlIdVocabulary, TRUE, FALSE),
     Profile(RecentVocabulary, TRUE, FALSE),
     Profile(ListVocabulary, TRUE, FALSE),
     Profile(LeafVocabulary, TRUE, TRUE)}

\* The options validate is called with: none, and for the xml:id vocabulary
\* also the check of xml:id switched off
ValidateOptionSets(v) ==
    IF v = XmlIdVocabulary
    THEN {<<>>, [enforceXmlIdUniqueness |-> FALSE]}
    ELSE {<<>>}

\* ---------------------------------------------------------------------------
\* The state machine
\* ---------------------------------------------------------------------------

RootNode == [type |-> "root", children |-> <<>>, mode |-> "html", loc |-> emptyRange]

\* No API result yet
NoResults == [emit |-> None, emitToStream |-> None, compile |-> None,
              reparse |-> None, format |-> None]

Init ==
    /\ \E profile \in Profiles :
          /\ vocabulary = profile.vocabulary
          /\ fragment = profile.fragment
          /\ preserveWhitespace = profile.preserveWhitespace
    /\ pc = "scan"
    /\ tok = NoToken
    /\ ntok = 0
    /\ nodes = <<RootNode>>
    /\ stack = <<Frame(ROOT, "html", PREDECLARED_NAMESPACES, FALSE)>>
    /\ diagnostics = <<>>
    /\ recentlyImplicitlyClosedHtml = <<>>
    /\ validation = <<>>
    /\ document = ""
    /\ lexed = None
    /\ generator = None
    /\ results = NoResults
    /\ validateOptions \in ValidateOptionSets(vocabulary)
    /\ position = None
    /\ EMPTY_CHILDREN = <<>>

\* The number of tokens read at most from a stream over the vocabulary
streamLimit(v) ==
    IF v = ContainerVocabulary THEN MaxContainerTokens
    ELSE IF v = RecentVocabulary THEN MaxRecentTokens
    ELSE MaxTokens

\* The next token of the stream, of the given type
Reads(token, type) ==
    /\ pc = "scan"
    /\ ntok < streamLimit(vocabulary)
    /\ token \in vocabulary
    /\ token.type = type
    /\ mayFollow(vocabulary, tok, token)
    /\ tok' = token
    /\ ntok' = ntok + 1
    /\ UNCHANGED <<pc, vocabulary, fragment, preserveWhitespace, validateOptions, position, validation>>
    /\ UNCHANGED apiVars

\* A leaf node under the current frame (lines 111-152)
leafNode(type, token, mode, loc) ==
    IF type = "processingInstruction"
    THEN [type |-> type, target |-> token.target, data |-> token.data,
          mode |-> mode, loc |-> loc]
    ELSE [type |-> type, value |-> token.value, mode |-> mode, loc |-> loc]

\* case 'TEXT' (lines 105-119): the nodes and diagnostics after the handler
textToken(ns, stk, diags, token, loc, preserveWS) ==
    LET parentMode == current(stk).mode
        decoded    == reportInvalidReferences(token.value, loc, diags)
    IN  IF ~preserveWS /\ parentMode = "html" /\ trimIsEmpty(token.value)
        THEN [nodes |-> ns, diagnostics |-> diags]
        ELSE [nodes |-> addNode(ns, current(stk).node,
                                leafNode("text", [token EXCEPT !.value = decoded.value],
                                         parentMode, loc)),
              diagnostics |-> decoded.diagnostics]

\* case 'TEXT'.  The tokenizer reads text up to the next '<', so a text token
\* never follows a text token here.
TextStep ==
    \E token \in vocabulary :
        /\ tok.type # "TEXT"
        /\ Reads(token, "TEXT")
        /\ LET after == textToken(nodes, stack, diagnostics, token, TokenLoc(ntok + 1),
                                  preserveWhitespace) IN
           /\ nodes' = after.nodes
           /\ diagnostics' = after.diagnostics
        /\ EMPTY_CHILDREN' = appendChildCalls(EMPTY_CHILDREN, nodes', Len(nodes) + 1)
        /\ UNCHANGED <<stack, recentlyImplicitlyClosedHtml>>

\* case 'COMMENT'
CommentStep ==
    \E token \in vocabulary :
        /\ Reads(token, "COMMENT")
        /\ nodes' = addNode(nodes, current(stack).node,
                            leafNode("comment", token, current(stack).mode, TokenLoc(ntok + 1)))
        /\ EMPTY_CHILDREN' = appendChildCalls(EMPTY_CHILDREN, nodes', Len(nodes) + 1)
        /\ UNCHANGED <<stack, diagnostics, recentlyImplicitlyClosedHtml>>

\* case 'CDATA'
CDataStep ==
    \E token \in vocabulary :
        /\ Reads(token, "CDATA")
        /\ nodes' = addNode(nodes, current(stack).node,
                            leafNode("cdata", token, current(stack).mode, TokenLoc(ntok + 1)))
        /\ EMPTY_CHILDREN' = appendChildCalls(EMPTY_CHILDREN, nodes', Len(nodes) + 1)
        /\ UNCHANGED <<stack, diagnostics, recentlyImplicitlyClosedHtml>>

\* case 'PI'
PIStep ==
    \E token \in vocabulary :
        /\ Reads(token, "PI")
        /\ nodes' = addNode(nodes, current(stack).node,
                            leafNode("processingInstruction", token, current(stack).mode,
                                     TokenLoc(ntok + 1)))
        /\ EMPTY_CHILDREN' = appendChildCalls(EMPTY_CHILDREN, nodes', Len(nodes) + 1)
        /\ UNCHANGED <<stack, diagnostics, recentlyImplicitlyClosedHtml>>

\* case 'DOCTYPE': always appended to the Root
DoctypeStep ==
    \E token \in vocabulary :
        /\ Reads(token, "DOCTYPE")
        /\ nodes' = addNode(nodes, ROOT, leafNode("doctype", token, "html", TokenLoc(ntok + 1)))
        /\ EMPTY_CHILDREN' = appendChildCalls(EMPTY_CHILDREN, nodes', Len(nodes) + 1)
        /\ UNCHANGED <<stack, diagnostics, recentlyImplicitlyClosedHtml>>

\* case 'OPEN_TAG'
OpenTagStep ==
    \E token \in vocabulary :
        /\ Reads(token, "OPEN_TAG")
        /\ LET after == openTag(nodes, stack, diagnostics, token, TokenLoc(ntok + 1)) IN
           /\ nodes' = after.nodes
           /\ stack' = after.stack
           /\ diagnostics' = after.diagnostics
        /\ EMPTY_CHILDREN' = appendChildCalls(EMPTY_CHILDREN, nodes', Len(nodes) + 1)
        /\ UNCHANGED recentlyImplicitlyClosedHtml

\* case 'CLOSE_TAG'
CloseTagStep ==
    \E token \in vocabulary :
        /\ Reads(token, "CLOSE_TAG")
        /\ LET after == closeTag(nodes, stack, diagnostics, recentlyImplicitlyClosedHtml,
                                 token, TokenLoc(ntok + 1)) IN
           /\ stack' = after.stack
           /\ diagnostics' = after.diagnostics
           /\ recentlyImplicitlyClosedHtml' = after.recent
        /\ UNCHANGED <<nodes, EMPTY_CHILDREN>>

\* Lines 315-341: the end of the token loop, up to the return of parse
EndOfInput ==
    /\ pc = "scan"
    /\ pc' = "parsed"
    /\ diagnostics' = diagnostics \o neverClosedDiagnostics(nodes, stack, 2)
    /\ nodes' = IF ~fragment THEN ensureHtmlOptionalContainers(nodes) ELSE nodes
    /\ UNCHANGED <<vocabulary, fragment, preserveWhitespace, validateOptions, position, EMPTY_CHILDREN, tok, ntok, stack,
                   recentlyImplicitlyClosedHtml, validation>>
    /\ UNCHANGED apiVars

\* validate(ast) on the tree parse returned
Validate ==
    /\ pc = "parsed"
    /\ pc' = "validated"
    /\ validation' = validate(nodes)
    /\ UNCHANGED <<vocabulary, fragment, preserveWhitespace, validateOptions, position, EMPTY_CHILDREN, tok, ntok, nodes, stack,
                   diagnostics, recentlyImplicitlyClosedHtml>>
    /\ UNCHANGED apiVars



\* ---------------------------------------------------------------------------
\* parser.ts: parse(source, options), from the source text to the result
\* ---------------------------------------------------------------------------

\* One iteration of the token loop (lines 103-312) on the state of the loop
handleToken(st, token, loc, preserveWS) ==
    CASE token.type = "TEXT" ->
           With(textToken(st.nodes, st.stack, st.diagnostics, token, loc, preserveWS),
                LAMBDA after :
                    [st EXCEPT !.nodes = after.nodes, !.diagnostics = after.diagnostics])
      [] token.type = "COMMENT" ->
           [st EXCEPT !.nodes = addNode(st.nodes, current(st.stack).node,
                                        leafNode("comment", token, current(st.stack).mode, loc))]
      [] token.type = "CDATA" ->
           [st EXCEPT !.nodes = addNode(st.nodes, current(st.stack).node,
                                        leafNode("cdata", token, current(st.stack).mode, loc))]
      [] token.type = "PI" ->
           [st EXCEPT !.nodes = addNode(st.nodes, current(st.stack).node,
                                        leafNode("processingInstruction", token,
                                                 current(st.stack).mode, loc))]
      [] token.type = "DOCTYPE" ->
           [st EXCEPT !.nodes = addNode(st.nodes, ROOT, leafNode("doctype", token, "html", loc))]
      [] token.type = "OPEN_TAG" ->
           With(openTag(st.nodes, st.stack, st.diagnostics, token, loc),
                LAMBDA after :
                    [st EXCEPT !.nodes = after.nodes, !.stack = after.stack,
                               !.diagnostics = after.diagnostics])
      [] token.type = "CLOSE_TAG" ->
           With(closeTag(st.nodes, st.stack, st.diagnostics, st.recent, token, loc),
                LAMBDA after :
                    [st EXCEPT !.stack = after.stack, !.diagnostics = after.diagnostics,
                               !.recent = after.recent])

\* for (const token of tokens), from the k-th token on
RECURSIVE parseTokens(_, _, _, _)
parseTokens(st, toks, k, preserveWS) ==
    IF k > Len(toks) THEN st
    ELSE parseTokens(handleToken(st, toks[k], toks[k].loc, preserveWS), toks, k + 1, preserveWS)

\* parse(source, {fragment, preserveWhitespace}): the diagnostics of the
\* tokenizer come first (line 66)
parse(source, frag, preserveWS) ==
    With(tokenize(source), LAMBDA lex :
    With([nodes |-> <<RootNode>>,
          stack |-> <<Frame(ROOT, "html", PREDECLARED_NAMESPACES, FALSE)>>,
          diagnostics |-> lex.tk.diagnostics,
          recent |-> <<>>], LAMBDA start :
    With(parseTokens(start, lex.tokens, 1, preserveWS), LAMBDA final :
        [ast |-> IF ~frag THEN ensureHtmlOptionalContainers(final.nodes) ELSE final.nodes,
         diagnostics |-> final.diagnostics
                         \o neverClosedDiagnostics(final.nodes, final.stack, 2),
         stack |-> final.stack,
         recent |-> final.recent])))


\* ---------------------------------------------------------------------------
\* utils/escape.ts
\* ---------------------------------------------------------------------------

endsWith(s, p) == Len(s) >= Len(p) /\ SubSeq(s, Len(s) - Len(p) + 1, Len(s)) = p

\* s.replace(/pattern/g, replacement): matches taken left to right, each
\* search resuming after the previous match
RECURSIVE replaceAll(_, _, _)
replaceAll(s, pattern, replacement) ==
    IF Len(s) < Len(pattern) THEN s
    ELSE IF SubSeq(s, 1, Len(pattern)) = pattern
    THEN replacement \o replaceAll(SubSeq(s, Len(pattern) + 1, Len(s)), pattern, replacement)
    ELSE SubSeq(s, 1, 1) \o replaceAll(SubSeq(s, 2, Len(s)), pattern, replacement)

escapeHtml(s) ==
    replaceAll(replaceAll(replaceAll(s, "&", "&amp;"), "<", "&lt;"), ">", "&gt;")

escapeAttr(s) ==
    replaceAll(replaceAll(replaceAll(replaceAll(s, "&", "&amp;"), "\"", "&quot;"),
                          "<", "&lt;"), ">", "&gt;")

sanitizeComment(s) == replaceAll(s, "--", "- -")

sanitizePI(s) == replaceAll(s, "?>", "? >")

\* ---------------------------------------------------------------------------
\* emitter.ts, emitter-internal/runtime.ts, emitter-internal/xml-modes.ts
\* ---------------------------------------------------------------------------

HTML_INLINE_ELEMENTS ==
    {"a", "abbr", "b", "bdi", "bdo", "br", "cite", "code", "data",
     "dfn", "em", "i", "kbd", "mark", "q", "rp", "rt", "ruby",
     "s", "samp", "small", "span", "strong", "sub", "sup", "time",
     "u", "var", "wbr", "img", "input"}

FOREIGN_CONTENT_NAMESPACES ==
    [uri \in {"http://www.w3.org/2000/svg", "http://www.w3.org/1998/Math/MathML"} |->
        IF uri = "http://www.w3.org/2000/svg" THEN "svg" ELSE "math"]

\* options?.key ?? default
OptionOr(options, key, default) ==
    IF key \in DOMAIN options THEN options[key] ELSE default

\* chunks.join('')
RECURSIVE join(_)
join(chunks) == IF Len(chunks) = 0 THEN "" ELSE Head(chunks) \o join(Tail(chunks))

\* indent.repeat(n)
RECURSIVE repeat(_, _)
repeat(str, n) == IF n <= 0 THEN "" ELSE str \o repeat(str, n - 1)

\* The writes of a loop, one sequence per iteration, in order
RECURSIVE inOrder(_)
inOrder(writes) == IF Len(writes) = 0 THEN <<>> ELSE Head(writes) \o inOrder(Tail(writes))

\* sink.write(text, loc) and sink.write(text)
Write(text, loc) == [text |-> text, loc |-> Some(loc)]
WriteText(text) == [text |-> text, loc |-> None]

normalizeCustomElementPrefix(prefix) ==
    IF prefix = "" THEN ""
    ELSE IF endsWith(prefix, "-") THEN prefix ELSE prefix \o "-"

\* runtime.ts, mergeNs
mergeNs(parent, element) ==
    IF DOMAIN element.namespaces = {} THEN parent
    ELSE [k \in DOMAIN parent \cup DOMAIN element.namespaces |->
             IF k \in DOMAIN element.namespaces THEN element.namespaces[k] ELSE parent[k]]

emitAttr(attr) ==
    IF IsNone(attr.value) THEN " " \o attr.name
    ELSE " " \o attr.name \o "=\"" \o escapeAttr(The(attr.value)) \o "\""

isNamespaceAttrName(name) == startsWith(name, "xmlns:") \/ name = "xmlns"

RECURSIVE appendRegularAttributes(_, _)
appendRegularAttributes(baseOpenTag, attrs) ==
    IF Len(attrs) = 0 THEN baseOpenTag
    ELSE appendRegularAttributes(
            IF isNamespaceAttrName(Head(attrs).name) THEN baseOpenTag
            ELSE baseOpenTag \o emitAttr(Head(attrs)),
            Tail(attrs))

RECURSIVE appendAllAttributes(_, _)
appendAllAttributes(baseOpenTag, attrs) ==
    IF Len(attrs) = 0 THEN baseOpenTag
    ELSE appendAllAttributes(baseOpenTag \o emitAttr(Head(attrs)), Tail(attrs))

\* xml-modes.ts: the attributes of a custom element, declarations as data-xmlns
RECURSIVE appendCustomElementAttributes(_, _)
appendCustomElementAttributes(openTagText, attrs) ==
    IF Len(attrs) = 0 THEN openTagText
    ELSE LET attr  == Head(attrs)
             value == IF IsNone(attr.value) THEN "" ELSE The(attr.value)
         IN  appendCustomElementAttributes(
                IF startsWith(attr.name, "xmlns:")
                THEN openTagText \o " data-xmlns-" \o sliceFrom(attr.name, 6) \o "=\""
                             \o escapeAttr(value) \o "\""
                ELSE IF attr.name = "xmlns"
                THEN openTagText \o " data-xmlns=\"" \o escapeAttr(value) \o "\""
                ELSE openTagText \o emitAttr(attr),
                Tail(attrs))

\* xml-modes.ts: the attributes of the wrapper of emitAsDataAttributes
RECURSIVE appendDataAttributes(_, _)
appendDataAttributes(openTagText, attrs) ==
    IF Len(attrs) = 0 THEN openTagText
    ELSE LET attr == Head(attrs)
             value == IF IsNone(attr.value) THEN "" ELSE The(attr.value)
         IN  appendDataAttributes(
                IF isNamespaceAttrName(attr.name)
                THEN openTagText \o " "
                     \o (IF attr.name = "xmlns" THEN "data-xmlns"
                         ELSE "data-xmlns-" \o sliceFrom(attr.name, 6))
                     \o "=\"" \o escapeAttr(value) \o "\""
                ELSE IF IsNone(attr.value)
                THEN openTagText \o " data-" \o attr.name
                ELSE openTagText \o " data-" \o attr.name \o "=\"" \o escapeAttr(value) \o "\"",
                Tail(attrs))

resolveElementNamespaceUri(element, nsCtx) ==
    LET key == IF IsNone(element.prefix) \/ element.prefix = Some("")
               THEN "#default" ELSE The(element.prefix)
    IN  IF key \in DOMAIN nsCtx THEN Some(nsCtx[key]) ELSE None

RECURSIVE emitNode(_, _, _, _, _, _, _, _, _)

\* The per-child writes of the block branch of emitChildren
blockChild(ns, child, mode, indent, depth, nsCtx, runtime) ==
    LET node == ns[child]
        pad  == repeat(indent, depth + 1)
    IN  IF node.type = "processingInstruction" /\ node.target = "xml" THEN <<>>
        ELSE IF node.type = "text"
        THEN IF trim(node.value) # ""
             THEN <<WriteText("\n" \o pad), Write(escapeHtml(trim(node.value)), node.loc)>>
             ELSE <<>>
        ELSE <<WriteText("\n" \o pad)>>
             \o emitNode(ns, child, mode, indent, depth + 1, FALSE, FALSE, nsCtx, runtime)

emitChildren(ns, children, mode, indent, depth, nsCtx, runtime, rawTextParent) ==
    IF rawTextParent \/ indent = ""
    THEN inOrder([i \in 1..Len(children) |->
                    emitNode(ns, children[i], mode, indent, depth + 1, FALSE,
                             rawTextParent, nsCtx, runtime)])
    ELSE LET hasBlockChild ==
                 \E i \in 1..Len(children) :
                    /\ ns[children[i]].type = "element"
                    /\ toLowerCase(ns[children[i]].name) \notin HTML_INLINE_ELEMENTS
         IN  IF ~hasBlockChild
             THEN inOrder([i \in 1..Len(children) |->
                             emitNode(ns, children[i], mode, indent, depth + 1, FALSE,
                                      FALSE, nsCtx, runtime)])
             ELSE inOrder([i \in 1..Len(children) |->
                             blockChild(ns, children[i], mode, indent, depth, nsCtx, runtime)])
                  \o <<WriteText("\n" \o repeat(indent, depth))>>

emitElementWithChildren(ns, openTagBase, closingTagName, element, mode, indent, depth, nsCtx, runtime, rawTextParent) ==
    <<Write(openTagBase \o ">", element.loc)>>
    \o emitChildren(ns, element.children, mode, indent, depth, nsCtx, runtime, rawTextParent)
    \o <<WriteText("</" \o closingTagName \o ">")>>

emitHtmlElement(ns, element, mode, indent, depth, nsCtx, runtime) ==
    LET tagName   == toLowerCase(element.name)
        isRawText == tagName \in HTML_RAW_TEXT_ELEMENTS
        openTagText   == appendRegularAttributes("<" \o tagName, element.attrs)
    IN  IF element.isVoid
        THEN <<Write(openTagText \o ">", element.loc)>>
        ELSE emitElementWithChildren(ns, openTagText, tagName, element, mode, indent, depth,
                                     nsCtx, runtime, isRawText)

emitAsForeignContent(ns, element, emitMode, indent, depth, nsCtx, runtime) ==
    LET tagName == element.localName
        openTagText == appendRegularAttributes("<" \o tagName, element.attrs)
    IN  IF element.isVoid /\ Len(element.children) = 0
        THEN <<Write(openTagText \o "/>", element.loc)>>
        ELSE emitElementWithChildren(ns, openTagText, tagName, element, emitMode, indent, depth,
                                     nsCtx, runtime, FALSE)

emitAsCustomElement(ns, element, emitMode, indent, depth, nsCtx, runtime) ==
    LET nsUri == resolveElementNamespaceUri(element, nsCtx)
        baseTag == IF ~IsNone(element.prefix) /\ The(element.prefix) # ""
                   THEN The(element.prefix) \o "-" \o element.localName
                   ELSE element.localName
        customTag == runtime.customElementPrefix \o baseTag
        openTagText == appendCustomElementAttributes("<" \o customTag, element.attrs)
    IN  IF ~IsNone(nsUri) /\ The(nsUri) # "" /\ The(nsUri) \in DOMAIN FOREIGN_CONTENT_NAMESPACES
        THEN emitAsForeignContent(ns, element, emitMode, indent, depth, nsCtx, runtime)
        ELSE IF element.isVoid /\ Len(element.children) = 0
        THEN <<Write(openTagText \o "></" \o customTag \o ">", element.loc)>>
        ELSE emitElementWithChildren(ns, openTagText, customTag, element, emitMode, indent,
                                     depth, nsCtx, runtime, FALSE)

emitAsDataAttributes(ns, element, emitMode, indent, depth, nsCtx, runtime) ==
    LET wrapper == "div"
        openTagText == appendDataAttributes(
                      "<" \o wrapper \o " data-hxml-tag=\"" \o escapeAttr(element.name) \o "\"",
                      element.attrs) \o ">"
    IN  <<Write(openTagText, element.loc)>>
        \o emitChildren(ns, element.children, emitMode, indent, depth, nsCtx, runtime, FALSE)
        \o <<WriteText("</" \o wrapper \o ">")>>

\* emitAsPassthrough that renders the element as a custom element
emitAsPassthrough_Hyphenated(ns, element, emitMode, indent, depth, nsCtx, runtime) ==
    emitAsCustomElement(ns, element, emitMode, indent, depth, nsCtx, runtime)

emitAsPassthrough(ns, element, emitMode, indent, depth, nsCtx, runtime) ==
    LET openTagText == appendAllAttributes("<" \o element.name, element.attrs)
    IN  IF element.isVoid /\ Len(element.children) = 0
        THEN <<Write(openTagText \o "/>", element.loc)>>
        ELSE emitElementWithChildren(ns, openTagText, element.name, element, emitMode, indent,
                                     depth, nsCtx, runtime, FALSE)

emitAsStripped(ns, element, emitMode, indent, depth, nsCtx, runtime) ==
    emitChildren(ns, element.children, emitMode, indent, depth, nsCtx, runtime, FALSE)

emitXmlElement(ns, element, emitMode, indent, depth, nsCtx, runtime) ==
    CASE emitMode = "custom-elements" ->
           emitAsCustomElement(ns, element, emitMode, indent, depth, nsCtx, runtime)
      [] emitMode = "data-attributes" ->
           emitAsDataAttributes(ns, element, emitMode, indent, depth, nsCtx, runtime)
      [] emitMode = "passthrough" ->
           emitAsPassthrough(ns, element, emitMode, indent, depth, nsCtx, runtime)
      [] emitMode = "strip" ->
           emitAsStripped(ns, element, emitMode, indent, depth, nsCtx, runtime)

emitElement(ns, element, mode, indent, depth, nsCtx, runtime) ==
    LET childNs == mergeNs(nsCtx, element)
    IN  IF element.mode = "xml"
        THEN emitXmlElement(ns, element, mode, indent, depth, childNs, runtime)
        ELSE emitHtmlElement(ns, element, mode, indent, depth, childNs, runtime)

\* emitNode: the calls of sink.write it makes, in order
emitNode(ns, id, mode, indent, depth, includeDoctype, rawTextParent, nsCtx, runtime) ==
    LET node == ns[id] IN
    CASE node.type = "text" ->
           <<Write(IF rawTextParent THEN node.value ELSE escapeHtml(node.value), node.loc)>>
      [] node.type = "comment" ->
           <<Write("<!--" \o sanitizeComment(node.value) \o "-->", node.loc)>>
      [] node.type = "cdata" ->
           IF runtime.preserveCdataAsComment
           THEN <<Write("<!-- [CDATA[ " \o sanitizeComment(node.value) \o " ] -->", node.loc)>>
           ELSE <<Write(escapeHtml(node.value), node.loc)>>
      [] node.type = "processingInstruction" ->
           IF node.target = "xml" THEN <<>>
           ELSE IF runtime.processingInstructionMode = "custom-elements"
           THEN <<Write("<hxml-pi target=\"" \o escapeAttr(node.target) \o "\""
                        \o (IF node.data # ""
                            THEN " data=\"" \o escapeAttr(node.data) \o "\"" ELSE "")
                        \o "></hxml-pi>", node.loc)>>
           ELSE <<Write("<!--?" \o node.target
                        \o (IF node.data # "" THEN " " \o sanitizePI(node.data) ELSE "")
                        \o "?-->", node.loc)>>
      [] node.type = "doctype" ->
           <<Write(IF includeDoctype THEN "<!DOCTYPE html>\n" ELSE "", node.loc)>>
      [] node.type = "element" ->
           emitElement(ns, node, mode, indent, depth, nsCtx, runtime)


\* ---------------------------------------------------------------------------
\* utils/source-map.ts, utils/vlq.ts and the SourceMapBuilder of runtime.ts.
\* A range is kept as its two offsets; its line and column are those the
\* SourceTracker of the source text computes for the offset.
\* ---------------------------------------------------------------------------

\* SourceTracker constructor: the offsets where the lines begin
RECURSIVE lineStartsFrom(_, _)
lineStartsFrom(source, i) ==
    IF i >= Len(source) THEN <<>>
    ELSE (IF SubSeq(source, i + 1, i + 1) = "\n" THEN <<i + 1>> ELSE <<>>)
         \o lineStartsFrom(source, i + 1)

lineStarts(source) == <<0>> \o lineStartsFrom(source, 0)

\* The binary search of positionAt over the 0-based table starts
RECURSIVE searchLine(_, _, _, _)
searchLine(starts, offset, lo, hi) ==
    IF lo >= hi THEN lo
    ELSE LET mid == (lo + hi + 1) \div 2
         IN  IF starts[mid + 1] <= offset
             THEN searchLine(starts, offset, mid, hi)
             ELSE searchLine(starts, offset, lo, mid - 1)

\* positionAt without the clamp at the length of the source
positionAt_Unclamped(source, offset) ==
    IF offset <= 0 THEN [line |-> 1, col |-> 0, offset |-> 0]
    ELSE LET starts == lineStarts(source)
             lo     == searchLine(starts, offset, 0, Len(starts) - 1)
         IN  [line |-> lo + 1, col |-> offset - starts[lo + 1], offset |-> offset]

positionAt(source, offset) ==
    IF offset <= 0 THEN [line |-> 1, col |-> 0, offset |-> 0]
    ELSE LET clamped == IF offset >= Len(source) THEN Len(source) ELSE offset
             starts  == lineStarts(source)
             lo      == searchLine(starts, clamped, 0, Len(starts) - 1)
         IN  [line |-> lo + 1, col |-> clamped - starts[lo + 1], offset |-> clamped]

BASE64 == "ABCDEFGHIJKLMNOPQRSTUVWXYZabcdefghijklmnopqrstuvwxyz0123456789+/"

\* The do-while loop of encodeVlqInt on the unsigned value
RECURSIVE encodeVlqDigits(_)
encodeVlqDigits(vlq) ==
    LET low  == vlq % 32
        rest == vlq \div 32
        digit == IF rest > 0 THEN low + 32 ELSE low
    IN  SubSeq(BASE64, digit + 1, digit + 1)
        \o (IF rest > 0 THEN encodeVlqDigits(rest) ELSE "")

encodeVlqInt(value) ==
    encodeVlqDigits(IF value < 0 THEN (-value) * 2 + 1 ELSE value * 2)

RECURSIVE encodeVlqSegment(_)
encodeVlqSegment(values) ==
    IF Len(values) = 0 THEN ""
    ELSE encodeVlqInt(Head(values)) \o encodeVlqSegment(Tail(values))

\* array.join(separator)
RECURSIVE joinWith(_, _)
joinWith(parts, separator) ==
    IF Len(parts) = 0 THEN ""
    ELSE IF Len(parts) = 1 THEN parts[1]
    ELSE parts[1] \o separator \o joinWith(Tail(parts), separator)

\* advance that keeps the column of the last segment across a line feed
RECURSIVE advance_ColumnKeptAcrossLines(_, _, _)
advance_ColumnKeptAcrossLines(b, text, i) ==
    IF i > Len(text) THEN b
    ELSE LET after ==
                 IF SubSeq(text, i, i) = "\n"
                 THEN [b EXCEPT !.genLine = @ + 1, !.genCol = 0,
                                !.lineGroups = IF b.genLine + 1 >= Len(@)
                                               THEN Append(@, <<>>) ELSE @]
                 ELSE [b EXCEPT !.genCol = @ + 1]
         IN  IF after.genCol >= 0 THEN advance_ColumnKeptAcrossLines(after, text, i + 1)
             ELSE after

\* The inner loop of buildSourceMap over the characters of a segment
RECURSIVE advance(_, _, _)
advance(b, text, i) ==
    IF i > Len(text) THEN b
    ELSE LET after ==
                 IF SubSeq(text, i, i) = "\n"
                 THEN [b EXCEPT !.genLine = @ + 1, !.genCol = 0, !.prevGenCol = 0,
                                !.lineGroups = IF b.genLine + 1 >= Len(@)
                                               THEN Append(@, <<>>) ELSE @]
                 ELSE [b EXCEPT !.genCol = @ + 1]
         IN  \* the column is never negative: the test has the state computed
             \* before the next character is looked at
             IF after.genCol >= 0 THEN advance(after, text, i + 1) ELSE after

\* The outer loop of buildSourceMap from the i-th segment on
RECURSIVE mapSegments(_, _, _, _)
mapSegments(b, segments, i, tracker) ==
    IF i > Len(segments) THEN b
    ELSE LET seg == segments[i]
             mapped ==
                 IF IsNone(seg.loc) THEN b
                 ELSE LET start   == positionAt(tracker, The(seg.loc)[1])
                          srcLine == start.line - 1
                          srcCol  == start.col
                          encoded == encodeVlqSegment(<<b.genCol - b.prevGenCol, 0,
                                                        srcLine - b.prevSrcLine,
                                                        srcCol - b.prevSrcCol>>)
                      IN  [b EXCEPT !.lineGroups[b.genLine + 1] = Append(@, encoded),
                                    !.prevGenCol = b.genCol,
                                    !.prevSrcLine = srcLine,
                                    !.prevSrcCol = srcCol]
         IN  mapSegments(advance(mapped, seg.text, 1), segments, i + 1, tracker)

\* SourceMapBuilder.buildSourceMap: the map that is handed to JSON.stringify
buildSourceMap(segments, tracker, sourceFile, sourceContent) ==
    LET start == [genLine |-> 0, genCol |-> 0, prevGenCol |-> 0, prevSrcLine |-> 0,
                  prevSrcCol |-> 0, lineGroups |-> <<<<>>>>]
        final == mapSegments(start, segments, 1, tracker)
        mappings == joinWith([g \in 1..Len(final.lineGroups) |->
                                 joinWith(final.lineGroups[g], ",")], ";")
    IN  [version |-> 3, sources |-> <<sourceFile>>, names |-> <<>>, mappings |-> mappings,
         sourcesContent |-> IF IsNone(sourceContent) THEN None ELSE Some(<<The(sourceContent)>>)]

\* createEmitSink: the calls of writeChunk, and the segments of the builder
chunksOf(writes) ==
    LET written == SelectSeq(writes, LAMBDA w : w.text # "")
    IN  [i \in 1..Len(written) |-> written[i].text]

segmentsOf(writes) ==
    SelectSeq(SelectSeq(writes, LAMBDA w : w.text # ""), LAMBDA w : w.text # "")

\* The runtime options of emit and emitToStream
runtimeOf(options) ==
    [customElementPrefix |->
        normalizeCustomElementPrefix(OptionOr(options, "customElementPrefix", "")),
     processingInstructionMode |-> OptionOr(options, "processingInstructionMode", "comment"),
     preserveCdataAsComment |-> OptionOr(options, "preserveCdataAsComment", FALSE)]

\* for (const node of ast.children) emitNode(node, ...)
rootWrites(ns, mode, indent, includeDoctype, runtime) ==
    inOrder([i \in 1..Len(ns[ROOT].children) |->
                emitNode(ns, ns[ROOT].children[i], mode, indent, 0, includeDoctype, FALSE,
                         PREDECLARED_NAMESPACES, runtime)])

\* emit(ast, options), for a tree whose ranges refer to the text tracker
emit(ns, options, tracker) ==
    LET mode           == OptionOr(options, "mode", "custom-elements")
        indent         == OptionOr(options, "indent", "")
        includeDoctype == OptionOr(options, "doctype", TRUE)
        wantSourceMap  == OptionOr(options, "sourceMap", FALSE)
        writes         == rootWrites(ns, mode, indent, includeDoctype, runtimeOf(options))
        html           == join(chunksOf(writes))
    IN  IF wantSourceMap
        THEN [html |-> html,
              sourceMap |-> Some(buildSourceMap(segmentsOf(writes), tracker,
                                                OptionOr(options, "sourceFile", "input.hxml"),
                                                OptionOr(options, "sourceContent", None)))]
        ELSE [html |-> html, sourceMap |-> None]

\* emitToStream without the defaults of the options: strategy passthrough,
\* no doctype
emitToStream_OtherDefaults(ns, options, tracker) ==
    LET writes == rootWrites(ns, OptionOr(options, "mode", "passthrough"),
                             OptionOr(options, "indent", ""),
                             OptionOr(options, "doctype", FALSE), runtimeOf(options))
    IN  [chunks |-> chunksOf(writes), sourceMap |-> None]

\* emitToStream(ast, writeChunk, options): the chunks handed to writeChunk, in
\* call order, and the result
emitToStream(ns, options, tracker) ==
    LET mode           == OptionOr(options, "mode", "custom-elements")
        indent         == OptionOr(options, "indent", "")
        includeDoctype == OptionOr(options, "doctype", TRUE)
        wantSourceMap  == OptionOr(options, "sourceMap", FALSE)
        writes         == rootWrites(ns, mode, indent, includeDoctype, runtimeOf(options))
    IN  IF ~wantSourceMap
        THEN [chunks |-> chunksOf(writes), sourceMap |-> None]
        ELSE [chunks |-> chunksOf(writes),
              sourceMap |-> Some(buildSourceMap(segmentsOf(writes), tracker,
                                                OptionOr(options, "sourceFile", "input.hxml"),
                                                OptionOr(options, "sourceContent", None)))]


\* ---------------------------------------------------------------------------
\* index.ts: compile(source, options)
\* ---------------------------------------------------------------------------

\* The emit options compile hands to emit (lines 147-156)
compileEmitOptions(source, options) ==
    IF "emit" \notin DOMAIN options THEN <<>>
    ELSE LET given == OptionOr(options.emit, "sourceContent", None)
             sourceContent ==
                 IF OptionOr(options.emit, "sourceMap", FALSE)
                    /\ OptionOr(options, "includeSourceContent", FALSE)
                 THEN (IF IsNone(given) THEN Some(source) ELSE given)
                 ELSE given
         IN  [k \in DOMAIN options.emit \cup {"sourceContent"} |->
                 IF k = "sourceContent" THEN sourceContent ELSE options.emit[k]]

\* compile that returns no output once a diagnostic was reported
compile_NothingOnError(source, options) ==
    With(OptionOr(options, "parse", <<>>), LAMBDA parseOptions :
    With(parse(source, OptionOr(parseOptions, "fragment", FALSE),
               OptionOr(parseOptions, "preserveWhitespace", FALSE)), LAMBDA parseResult :
    With(IF ~OptionOr(options, "noValidate", FALSE)
         THEN parseResult.diagnostics \o validate(parseResult.ast)
         ELSE parseResult.diagnostics, LAMBDA diagnostics1 :
    With(emit(parseResult.ast, compileEmitOptions(source, options), source),
         LAMBDA emitResult :
        [html |-> IF Len(diagnostics1) > 0 THEN "" ELSE emitResult.html,
         ast |-> parseResult.ast,
         diagnostics |-> diagnostics1,
         sourceMap |-> emitResult.sourceMap]))))

compile(source, options) ==
    With(OptionOr(options, "parse", <<>>), LAMBDA parseOptions :
    With(parse(source, OptionOr(parseOptions, "fragment", FALSE),
               OptionOr(parseOptions, "preserveWhitespace", FALSE)), LAMBDA parseResult :
    With(IF ~OptionOr(options, "noValidate", FALSE)
         THEN parseResult.diagnostics \o validate(parseResult.ast)
         ELSE parseResult.diagnostics, LAMBDA diagnostics1 :
    With(emit(parseResult.ast, compileEmitOptions(source, options), source),
         LAMBDA emitResult :
        [html |-> emitResult.html,
         ast |-> parseResult.ast,
         diagnostics |-> diagnostics1,
         sourceMap |-> emitResult.sourceMap]))))


\* ---------------------------------------------------------------------------
\* converter.ts: htmlToHxml, which format calls (index.ts, lines 110-112),
\* with sortAttributes and preserveAttributeQuotes left at their default false
\* ---------------------------------------------------------------------------

\* s.replace(/\s+/g, ' ')
RECURSIVE collapseWhiteSpace(_)
collapseWhiteSpace(s) ==
    IF Len(s) = 0 THEN ""
    ELSE IF SubSeq(s, 1, 1) \in WhiteSpace
    THEN " " \o collapseWhiteSpace(trimStart(s))
    ELSE SubSeq(s, 1, 1) \o collapseWhiteSpace(SubSeq(s, 2, Len(s)))

\* s.replace(/^\s+/, '').replace(/\s+$/, '')
trimInline(s) == trimEnd(trimStart(s))

hasBlockContent(ns, children) ==
    \E i \in 1..Len(children) :
       LET node == ns[children[i]] IN
       \/ node.type = "element" /\ toLowerCase(node.name) \notin HTML_INLINE_ELEMENTS
       \/ node.type = "text" /\ includes(node.value, "\n")

\* The open tag of serializeElement (lines 162-176), from the i-th attribute on
RECURSIVE serializeAttrs(_, _, _)
serializeAttrs(openTagText, attrs, i) ==
    IF i > Len(attrs) THEN openTagText
    ELSE serializeAttrs(
            IF IsNone(attrs[i].value) THEN openTagText \o " " \o attrs[i].name
            ELSE openTagText \o " " \o attrs[i].name \o "=\""
                 \o escapeAttr(The(attrs[i].value)) \o "\"",
            attrs, i + 1)

RECURSIVE serializeNode(_, _, _, _, _)

serializeNodes(ns, children, indent, depth, preserveWS) ==
    join([i \in 1..Len(children) |-> serializeNode(ns, children[i], indent, depth, preserveWS)])

\* The lines of the block branch of serializeElement for one child
blockLine(ns, child, indent, depth, preserveWS) ==
    LET node     == ns[child]
        childPad == repeat(indent, depth + 1)
    IN  IF node.type = "text"
        THEN LET raw == IF preserveWS THEN node.value ELSE collapseWhiteSpace(node.value)
                 v   == trim(raw)
             IN  IF v # "" THEN childPad \o v \o "\n" ELSE ""
        ELSE IF node.type = "element"
        THEN serializeNode(ns, child, indent, depth + 1, preserveWS) \o "\n"
        ELSE LET chunk == trim(serializeNode(ns, child, indent, depth + 1, preserveWS))
             IN  IF chunk # "" THEN childPad \o chunk \o "\n" ELSE ""

serializeElement(ns, element, indent, depth, preserveWS) ==
    LET tagName == IF element.mode = "html" THEN toLowerCase(element.name) ELSE element.name
        pad     == repeat(indent, depth)
        openTagText == serializeAttrs("<" \o tagName, element.attrs, 1)
    IN  IF tagName \in HTML_VOID_ELEMENTS \/ element.isVoid
        THEN pad \o openTagText \o ">"
        ELSE IF tagName \in HTML_RAW_TEXT_ELEMENTS
        THEN pad \o openTagText \o ">"
             \o join([i \in 1..Len(element.children) |->
                        IF ns[element.children[i]].type = "text"
                        THEN ns[element.children[i]].value ELSE ""])
             \o "</" \o tagName \o ">"
        ELSE IF Len(element.children) = 0
        THEN pad \o openTagText \o "></" \o tagName \o ">"
        ELSE IF ~(~preserveWS /\ hasBlockContent(ns, element.children))
        THEN pad \o openTagText \o ">"
             \o trimInline(serializeNodes(ns, element.children, indent, depth + 1, preserveWS))
             \o "</" \o tagName \o ">"
        ELSE pad \o openTagText \o ">\n"
             \o join([i \in 1..Len(element.children) |->
                        blockLine(ns, element.children[i], indent, depth, preserveWS)])
             \o pad \o "</" \o tagName \o ">"

serializeNode(ns, id, indent, depth, preserveWS) ==
    LET node == ns[id] IN
    CASE node.type = "doctype" -> "<!DOCTYPE html>\n"
      [] node.type = "text" ->
           IF ~preserveWS THEN collapseWhiteSpace(node.value) ELSE node.value
      [] node.type = "comment" -> "<!--" \o node.value \o "-->"
      [] node.type = "cdata" -> "<![CDATA[" \o node.value \o "]]>"
      [] node.type = "processingInstruction" ->
           "<?" \o node.target \o (IF node.data # "" THEN " " \o node.data ELSE "") \o "?>"
      [] node.type = "element" -> serializeElement(ns, node, indent, depth, preserveWS)

htmlToHxml(source, options) ==
    With(parse(source, FALSE, TRUE).ast, LAMBDA ast :
        [hxml |-> serializeNodes(ast, ast[ROOT].children,
                                 OptionOr(options, "indent", "  "), 0,
                                 OptionOr(options, "preserveWhitespace", FALSE))])

format(source, options) == htmlToHxml(source, options)


\* ---------------------------------------------------------------------------
\* The API on a source text: tokenize, tokenizeStream, parse, validate
\* ---------------------------------------------------------------------------

\* The number of pieces a source text is made of, at most
MaxPieces == 3

\* Tags, raw text, bogus markup and an unterminated attribute value
LexicalPieces ==
    {"<title>", "a<b", "</title>", "<!x>", "<a t=\"u", "<", "<?pi d?>",
     "<![CDATA[d]]>", "<!doctype html>", "<p id='&#xD800;'>", "<d:c>"}

\* Lenient and strict elements, the document containers, attributes
MarkupPieces ==
    {"<p>", "</p>", "<DIV>", "x", "<d:c>", "</d:c>", "<e:v k=\"1\"/>", "<br>",
     "<html>", "<body>", "<r xmlns:p=\"u\" b>", "<!doctype html>"}

\* Text, references, raw text and the leaves
ContentPieces ==
    {"<p>", "<d:c>", "x", "&lt;", "<", "<!--c-->", "<!--a--b-->", "<![CDATA[d]]>",
     "<?pi d?>", "<title>", "&amp;lt;", "<!x>", "&lt;/title>", "&lt;b&gt;"}

\* All the texts of at most n pieces
RECURSIVE Concatenations(_, _)
Concatenations(pieces, n) ==
    IF n = 0 THEN {""}
    ELSE LET shorter == Concatenations(pieces, n - 1)
         IN  shorter \cup {piece \o text : piece \in pieces, text \in shorter}

DocumentProfiles ==
    {[pieces |-> LexicalPieces, fragment |-> TRUE],
     [pieces |-> MarkupPieces, fragment |-> FALSE],
     [pieces |-> ContentPieces, fragment |-> FALSE]}

\* A source text, a fresh Tokenizer for tokenize() and a fresh one behind
\* the generator tokenizeStream() returned
DocumentInit ==
    /\ \E profile \in DocumentProfiles :
          /\ document \in Concatenations(profile.pieces, MaxPieces)
          /\ fragment = profile.fragment
    /\ preserveWhitespace = FALSE
    /\ vocabulary = {}
    /\ pc = "source"
    /\ tok = NoToken
    /\ ntok = 0
    /\ nodes = <<RootNode>>
    /\ stack = <<Frame(ROOT, "html", PREDECLARED_NAMESPACES, FALSE)>>
    /\ diagnostics = <<>>
    /\ recentlyImplicitlyClosedHtml = <<>>
    /\ validation = <<>>
    /\ lexed = None
    /\ generator = [tk |-> NewTokenizer, yielded |-> <<>>]
    /\ results = NoResults
    /\ validateOptions = <<>>
    /\ position = None
    /\ EMPTY_CHILDREN = <<>>

\* new Tokenizer(source).tokenize(), and the diagnostics it leaves
Tokenize ==
    /\ pc = "source"
    /\ pc' = "tokenized"
    /\ \E all \in {tokenize(document)} :
          lexed' = [tokens |-> all.tokens, diagnostics |-> all.tk.diagnostics]
    /\ UNCHANGED <<vocabulary, fragment, preserveWhitespace, validateOptions, position, EMPTY_CHILDREN, tok, ntok, nodes, stack,
                   diagnostics, recentlyImplicitlyClosedHtml, validation, document,
                   generator, results>>

\* One round of the loop of tokenizeStream (lines 463-468), stopping as soon
\* as a token has the value ''
tokenizeStreamNext_StopsAtEmptyValue(source, tk) ==
    With(nextToken(source, tk), LAMBDA read :
    With(\/ read.token = None
         \/ "value" \in DOMAIN read.token[1] /\ read.token[1].value = "", LAMBDA stop :
        [done |-> stop, value |-> IF stop THEN None ELSE read.token, tk |-> read.tk]))

\* One round of the loop of tokenizeStream (lines 463-468): the generator
\* yields the token nextToken returned, and returns when that is null
tokenizeStreamNext(source, tk) ==
    With(nextToken(source, tk), LAMBDA read :
        [done |-> read.token = None, value |-> read.token, tk |-> read.tk])

\* The consumer asks the generator for its next token
TokenizeStreamNext ==
    /\ pc = "tokenized"
    /\ \E round \in {tokenizeStreamNext(document, generator.tk)} :
       /\ generator' = [tk |-> round.tk,
                        yielded |-> IF round.done THEN generator.yielded
                                    ELSE Append(generator.yielded, round.value[1])]
       /\ pc' = IF round.done THEN "streamed" ELSE pc
    /\ UNCHANGED <<vocabulary, fragment, preserveWhitespace, validateOptions, position, EMPTY_CHILDREN, tok, ntok, nodes, stack,
                   diagnostics, recentlyImplicitlyClosedHtml, validation, document,
                   lexed, results>>

\* parse(source, {fragment, preserveWhitespace})
Parse ==
    /\ pc = "streamed"
    /\ pc' = "parsed"
    /\ \E parsed \in {parse(document, fragment, preserveWhitespace)} :
       /\ nodes' = parsed.ast
       /\ diagnostics' = parsed.diagnostics
       /\ stack' = parsed.stack
       /\ recentlyImplicitlyClosedHtml' = parsed.recent
    /\ UNCHANGED <<vocabulary, fragment, preserveWhitespace, validateOptions, position, EMPTY_CHILDREN, tok, ntok, validation,
                   document, lexed, generator, results>>

\* The state machine of parse, validate and emit on a token stream
\* emit(ast) on the tree parse returned, after validate
EmitTree ==
    /\ pc = "validated"
    /\ pc' = "emitted"
    /\ results' = [results EXCEPT !.emit = Some([options |-> <<>>,
                                                 result |-> emit(nodes, <<>>, document)])]
    /\ UNCHANGED <<vocabulary, fragment, preserveWhitespace, validateOptions, position, EMPTY_CHILDREN, tok, ntok, nodes, stack,
                   diagnostics, recentlyImplicitlyClosedHtml, validation, document,
                   lexed, generator>>

\* A later call of parse in the same module, after parse, validate or emit
\* returned: lines 63-88, the Root is created with children: EMPTY_CHILDREN,
\* and the stack, the diagnostics and the recent buffer are new.
ParseAgain ==
    /\ pc \in {"parsed", "validated", "emitted"}
    /\ pc' = "scan"
    /\ tok' = NoToken
    /\ ntok' = 0
    /\ nodes' = <<[RootNode EXCEPT !.children = EMPTY_CHILDREN]>>
    /\ stack' = <<Frame(ROOT, "html", PREDECLARED_NAMESPACES, FALSE)>>
    /\ diagnostics' = <<>>
    /\ recentlyImplicitlyClosedHtml' = <<>>
    /\ validation' = <<>>
    /\ results' = NoResults
    /\ UNCHANGED <<vocabulary, fragment, preserveWhitespace, validateOptions, position,
                   EMPTY_CHILDREN, document, lexed, generator>>

Next ==
    \/ TextStep
    \/ CommentStep
    \/ CDataStep
    \/ PIStep
    \/ DoctypeStep
    \/ OpenTagStep
    \/ CloseTagStep
    \/ EndOfInput
    \/ Validate
    \/ EmitTree
    \/ ParseAgain

Spec == Init /\ [][Next]_vars

\* The options emit, emitToStream and compile are called with
EmitOptionSets ==
    {<<>>,
     [mode |-> "passthrough", doctype |-> FALSE],
     [mode |-> "data-attributes", indent |-> "  ", sourceMap |-> TRUE],
     [mode |-> "strip", sourceMap |-> TRUE, sourceFile |-> "a.hxml",
      sourceContent |-> Some("s")],
     [mode |-> "custom-elements", indent |-> "  ", customElementPrefix |-> "x",
      processingInstructionMode |-> "custom-elements", preserveCdataAsComment |-> TRUE]}

\* The options of the round trip: strict elements as written, no doctype line
RoundTripOptions == [mode |-> "passthrough", doctype |-> FALSE]

\* parse(emit(ast, {mode: 'passthrough', doctype: false}).html, options) on the
\* tree parse returned, with the options of that parse
Reparse ==
    /\ pc = "validated"
    /\ pc' = "reparsed"
    /\ \E html \in {emit(nodes, RoundTripOptions, document).html} :
           results' = [results EXCEPT !.reparse =
                          Some([html |-> html,
                                ast |-> parse(html, fragment, preserveWhitespace).ast])]
    /\ UNCHANGED <<vocabulary, fragment, preserveWhitespace, validateOptions, position, EMPTY_CHILDREN, tok, ntok, nodes, stack,
                   diagnostics, recentlyImplicitlyClosedHtml, validation, document,
                   lexed, generator>>

\* emit(ast, options) on the tree parse returned
Emit ==
    /\ pc = "reparsed"
    /\ pc' = "emitted"
    /\ \E options \in EmitOptionSets :
          results' = [results EXCEPT !.emit = Some([options |-> options,
                                                    result |-> emit(nodes, options, document)])]
    /\ UNCHANGED <<vocabulary, fragment, preserveWhitespace, validateOptions, position, EMPTY_CHILDREN, tok, ntok, nodes, stack,
                   diagnostics, recentlyImplicitlyClosedHtml, validation, document,
                   lexed, generator>>

\* emitToStream(ast, writeChunk, options) on the same tree with the same options
EmitToStream ==
    /\ pc = "emitted"
    /\ pc' = "written"
    /\ results' = [results EXCEPT !.emitToStream =
                      Some(emitToStream(nodes, The(results.emit).options, document))]
    /\ UNCHANGED <<vocabulary, fragment, preserveWhitespace, validateOptions, position, EMPTY_CHILDREN, tok, ntok, nodes, stack,
                   diagnostics, recentlyImplicitlyClosedHtml, validation, document,
                   lexed, generator>>

\* compile(source, options) with the options of the separate calls
Compile ==
    /\ pc = "written"
    /\ pc' = "compiled"
    /\ \E noValidate, includeSourceContent \in BOOLEAN :
          \E options \in {[parse |-> [fragment |-> fragment,
                                       preserveWhitespace |-> preserveWhitespace],
                            emit |-> The(results.emit).options,
                            noValidate |-> noValidate,
                            includeSourceContent |-> includeSourceContent]} :
              results' = [results EXCEPT !.compile =
                             Some([options |-> options,
                                   result |-> compile(document, options)])]
    /\ UNCHANGED <<vocabulary, fragment, preserveWhitespace, validateOptions, position, EMPTY_CHILDREN, tok, ntok, nodes, stack,
                   diagnostics, recentlyImplicitlyClosedHtml, validation, document,
                   lexed, generator>>

\* The options of format
ConvertOptionSets == {<<>>, [indent |-> "\t", preserveWhitespace |-> TRUE]}

\* format(source, options), and format again on what it returned
Format ==
    /\ pc = "validated"
    /\ pc' = "formatted"
    /\ \E options \in ConvertOptionSets :
          \E once \in {format(document, options).hxml} :
              results' = [results EXCEPT !.format =
                             Some([options |-> options, once |-> once,
                                   twice |-> format(once, options).hxml])]
    /\ UNCHANGED <<vocabulary, fragment, preserveWhitespace, validateOptions, position, EMPTY_CHILDREN, tok, ntok, nodes, stack,
                   diagnostics, recentlyImplicitlyClosedHtml, validation, document,
                   lexed, generator>>

DocumentNext ==
    \/ Format
    \/ Tokenize
    \/ TokenizeStreamNext
    \/ Parse
    \/ Validate
    \/ Reparse
    \/ Emit
    \/ EmitToStream
    \/ Compile

DocumentSpec == DocumentInit /\ [][DocumentNext]_vars


\* ---------------------------------------------------------------------------
\* The tokenizer on source texts of attribute values, bare '<' and raw text
\* ---------------------------------------------------------------------------

\* The number of pieces such a source text is made of, at most
MaxLexicalPieces == 3

\* Quoted attribute values with and without their closing quote, line ends,
\* the markup that follows, and invalid numeric references
AttributeValuePieces ==
    {"<a t=\"u", "<a t='u", "\n", "\r", "\"", ">", "<p>", "x", "</p>", " k=v",
     "&#xD800;", "<p id='a&#xD800;'>"}

\* '<' and the characters that may follow it
DelimiterPieces == {"<", " ", ">", "1", "=", "x", "_", ":", "/>"}

\* Raw text elements, their content and what may end it
RawTextPieces ==
    {"<title>", "<STYLE>", "<d:title>", "a<b", "</title>", "</TITLE ", "</titles>",
     "<!--c-->", "</style", "<p>", "&amp;", " "}

\* Comments and CDATA sections with runs of hyphens in them
CommentPieces == {"<!--a", "<![CDATA[a", "-", "--", "---", "b", "-->", "]]>"}

LexicalProfiles == {AttributeValuePieces, DelimiterPieces, RawTextPieces, CommentPieces}

\* A source text, a fresh Tokenizer for tokenize() and a fresh one behind
\* the generator tokenizeStream() returned; parse is called with
\* {fragment: true}
LexicalInit ==
    /\ \E pieces \in LexicalProfiles :
          document \in Concatenations(pieces, MaxLexicalPieces)
    /\ fragment = TRUE
    /\ preserveWhitespace = FALSE
    /\ vocabulary = {}
    /\ pc = "source"
    /\ tok = NoToken
    /\ ntok = 0
    /\ nodes = <<RootNode>>
    /\ stack = <<Frame(ROOT, "html", PREDECLARED_NAMESPACES, FALSE)>>
    /\ diagnostics = <<>>
    /\ recentlyImplicitlyClosedHtml = <<>>
    /\ validation = <<>>
    /\ lexed = None
    /\ generator = [tk |-> NewTokenizer, yielded |-> <<>>]
    /\ results = NoResults
    /\ validateOptions = <<>>
    /\ position = None
    /\ EMPTY_CHILDREN = <<>>

LexicalNext ==
    \/ Tokenize
    \/ TokenizeStreamNext
    \/ Parse
    \/ Validate
    \/ EmitTree

LexicalSpec == LexicalInit /\ [][LexicalNext]_vars


\* ---------------------------------------------------------------------------
\* emit with a source map, on sources of more than one line
\* ---------------------------------------------------------------------------

\* The number of pieces a source text of more than one line is made of, at
\* most
MaxMapPieces == 3

\* Elements, text and a comment, and the line feed between them
MapPieces == {"<p>", "x", "\n", "</p>", "<d:c>", "<!--c-->", "<br>"}

\* A source text; parse is called with and without {fragment: true}
SourceMapInit ==
    /\ document \in Concatenations(MapPieces, MaxMapPieces)
    /\ fragment \in BOOLEAN
    /\ preserveWhitespace = FALSE
    /\ vocabulary = {}
    /\ pc = "source"
    /\ tok = NoToken
    /\ ntok = 0
    /\ nodes = <<RootNode>>
    /\ stack = <<Frame(ROOT, "html", PREDECLARED_NAMESPACES, FALSE)>>
    /\ diagnostics = <<>>
    /\ recentlyImplicitlyClosedHtml = <<>>
    /\ validation = <<>>
    /\ lexed = None
    /\ generator = [tk |-> NewTokenizer, yielded |-> <<>>]
    /\ results = NoResults
    /\ validateOptions = <<>>
    /\ position = None
    /\ EMPTY_CHILDREN = <<>>

SourceMapNext ==
    \/ Tokenize
    \/ TokenizeStreamNext
    \/ Parse
    \/ Validate
    \/ Reparse
    \/ Emit

SourceMapSpec == SourceMapInit /\ [][SourceMapNext]_vars


\* ---------------------------------------------------------------------------
\* SourceTracker on source texts of several lines
\* ---------------------------------------------------------------------------

\* The number of pieces such a source text is made of, at most
MaxLinePieces == 4

\* How far outside the source text an offset may lie
OffsetMargin == 2

LinePieces == {"a", "\n", "bc", "\r\n"}

\* new SourceTracker(source)
TrackerInit ==
    /\ document \in Concatenations(LinePieces, MaxLinePieces)
    /\ fragment = TRUE
    /\ preserveWhitespace = FALSE
    /\ vocabulary = {}
    /\ pc = "source"
    /\ tok = NoToken
    /\ ntok = 0
    /\ nodes = <<RootNode>>
    /\ stack = <<Frame(ROOT, "html", PREDECLARED_NAMESPACES, FALSE)>>
    /\ diagnostics = <<>>
    /\ recentlyImplicitlyClosedHtml = <<>>
    /\ validation = <<>>
    /\ lexed = None
    /\ generator = [tk |-> NewTokenizer, yielded |-> <<>>]
    /\ results = NoResults
    /\ validateOptions = <<>>
    /\ position = None
    /\ EMPTY_CHILDREN = <<>>

\* tracker.positionAt(offset)
PositionAt ==
    /\ pc = "source"
    /\ \E offset \in (0 - OffsetMargin)..(Len(document) + OffsetMargin) :
          position' = Some([asked |-> offset, answer |-> positionAt(document, offset)])
    /\ UNCHANGED <<pc, vocabulary, fragment, preserveWhitespace, validateOptions, tok, ntok,
                   nodes, stack, diagnostics, recentlyImplicitlyClosedHtml, validation,
                   document, lexed, generator, results, EMPTY_CHILDREN>>

TrackerNext == PositionAt

TrackerSpec == TrackerInit /\ [][TrackerNext]_vars


\* ---------------------------------------------------------------------------
\* Properties
\* ---------------------------------------------------------------------------

\* This step of the scan handles a token of the given type.
Handles(type) == pc = "scan" /\ ntok' = ntok + 1 /\ tok'.type = type

\* The node an OPEN_TAG step creates: the last node added.
NewElement == Len(nodes')

\* The parent of a node of the tree
ParentOf(ns, id) ==
    CHOOSE q \in 1..Len(ns) :
        /\ ns[q].type \in {"root", "element"}
        /\ \E i \in 1..Len(ns[q].children) : ns[q].children[i] = id

NameOfFrame(ns, entry) == ns[entry.node].name
FrameNames(ns, stk) == [i \in 1..(Len(stk) - 1) |-> NameOfFrame(ns, stk[i + 1])]

IsStrictFrame(ns, entry) == entry.mode = "xml" /\ ns[entry.node].type = "element"

\* The index of the topmost strict element frame, 0 when there is none
TopmostStrict(ns, stk) ==
    IF \E i \in 2..Len(stk) : IsStrictFrame(ns, stk[i])
    THEN CHOOSE i \in 2..Len(stk) :
            /\ IsStrictFrame(ns, stk[i])
            /\ \A j \in (i + 1)..Len(stk) : ~IsStrictFrame(ns, stk[j])
    ELSE 0

\* The lenient tag T named by token lists in the auto-close entry of frame i
Lists(ns, stk, i, token) ==
    /\ ns[stk[i].node].type = "element"
    /\ stk[i].mode = "html"
    /\ toLowerCase(token.name)
          \in closeSetOf(HTML_AUTO_CLOSE_BEFORE, toLowerCase(ns[stk[i].node].name))

\* C2: when a lenient tag opens while a strict element frame is on the stack,
\* every frame from the bottom up to and including the topmost strict frame
\* is still on the stack afterwards.
C2_StrictBoundary ==
    [][(Handles("OPEN_TAG") /\ ~xmlModeOf(tok', stack)
            /\ TopmostStrict(nodes, stack) > 0)
        => LET k == TopmostStrict(nodes, stack)
           IN  Len(stack') >= k /\ SubSeq(stack', 1, k) = SubSeq(stack, 1, k)]_vars

\* <p><d:c><div>: the div opened inside the strict d:c, the p still open
C2_Witness ==
    /\ tok = Open("div")
    /\ FrameNames(nodes, stack) = <<"p", "d:c", "div">>

\* C3 as stated: when a lenient tag T opens while the top frame is a lenient
\* element E whose auto-close entry lists T, E is popped and T's element
\* becomes a following sibling of E under E's parent, never a child of E.
C3_Original ==
    [][(Handles("OPEN_TAG") /\ ~xmlModeOf(tok', stack) /\ Len(stack) > 1
            /\ Lists(nodes, stack, Len(stack), tok'))
        => LET E == current(stack).node
               parentOfE == stack[Len(stack) - 1].node
               kids == nodes'[parentOfE].children
           IN  /\ \A i \in 1..Len(stack') : stack'[i].node # E
               /\ nodes'[E].children = nodes[E].children
               /\ \E i, j \in 1..Len(kids) :
                     i < j /\ kids[i] = E /\ kids[j] = NewElement]_vars

\* The lowest frame above the topmost strict frame that lists T
LowestListing(ns, stk, token) ==
    CHOOSE i \in (TopmostStrict(ns, stk) + 1)..Len(stk) :
        /\ i > 1
        /\ Lists(ns, stk, i, token)
        /\ \A j \in (TopmostStrict(ns, stk) + 1)..(i - 1) :
              j > 1 => ~Lists(ns, stk, j, token)

\* C3, amended: E is popped and T's element is never a child of E; it is
\* appended to the parent of the lowest frame above the topmost strict frame
\* that lists T, which is E's parent (T a following sibling of E) whenever no
\* frame below E lists T as well.
C3_AutoCloseSibling ==
    [][(Handles("OPEN_TAG") /\ ~xmlModeOf(tok', stack) /\ Len(stack) > 1
            /\ Lists(nodes, stack, Len(stack), tok'))
        => LET E == current(stack).node
               low == LowestListing(nodes, stack, tok')
               kids == nodes'[stack[low - 1].node].children
           IN  /\ \A i \in 1..Len(stack') : stack'[i].node # E
               /\ nodes'[E].children = nodes[E].children
               /\ kids[Len(kids)] = NewElement
               /\ SubSeq(stack', 1, low - 1) = SubSeq(stack, 1, low - 1)
               /\ low = Len(stack) =>
                     \E i \in 1..(Len(kids) - 1) : kids[i] = E]_vars

\* <li><LI>: the second li is the sibling of the first, under the Root
C3_Witness ==
    /\ tok = Open("LI")
    /\ Len(nodes) = 3
    /\ nodes[2].name = "li"
    /\ nodes[ROOT].children = <<2, 3>>
    /\ FrameNames(nodes, stack) = <<"LI">>


\* The frame is, or descends from, a marker element opened while lenient
InsideMarker(ns, stk, i) ==
    \E j \in 2..i :
        /\ toLowerCase(NameOfFrame(ns, stk[j])) = "xml"
        /\ stk[j - 1].mode = "html"

\* C5 (frames): a frame is inside the explicit strict region exactly when it
\* is, or descends from, a marker element opened while lenient, and every
\* element whose frame is inside the region is strict.
C5_RegionFrames ==
    \A i \in 1..Len(stack) :
        /\ stack[i].xmlRegion <=> InsideMarker(nodes, stack, i)
        /\ stack[i].xmlRegion => nodes[stack[i].node].mode = "xml"
        /\ stack[i].mode = nodes[stack[i].node].mode

\* C5: at an open tag the new element is strict if and only if its name has
\* a colon, or it is the marker xml (any letter case) under a lenient frame,
\* or the enclosing frame is inside a region; the region is as C5_RegionFrames
\* says, so elements opened after the marker's frame is popped are lenient.
C5_ModeDetermination ==
    /\ [][Handles("OPEN_TAG")
            => (nodes'[NewElement].mode = "xml"
                <=> \/ includes(tok'.name, ":")
                    \/ toLowerCase(tok'.name) = "xml" /\ current(stack).mode = "html"
                    \/ InsideMarker(nodes, stack, Len(stack)))]_vars
    /\ []C5_RegionFrames

\* <xml><Item><p>: an unprefixed element two levels inside the marker
C5_Witness ==
    /\ tok = Open("p")
    /\ FrameNames(nodes, stack) = <<"xml", "Item", "p">>
    /\ nodes[stack[4].node].mode = "xml"
    /\ stack[4].xmlRegion

\* The diagnostics a step appends
Appended == SubSeq(diagnostics', Len(diagnostics) + 1, Len(diagnostics'))

Names(code, ns, entry, diags) ==
    \E i \in 1..Len(diags) :
        /\ diags[i].code = code
        /\ diags[i].name = ns[entry.node].name
        /\ diags[i].loc = ns[entry.node].loc

\* C6: a strict element frame leaves the stack only by a close tag whose name
\* equals the element's name exactly, or with an HXML102 naming it; one left
\* on the stack at the end of input is named by an HXML103.
C6_ExactCaseClose ==
    [][/\ \A i \in 2..Len(stack) :
             (IsStrictFrame(nodes, stack[i]) /\ pc = "scan"
                 /\ ~(Len(stack') >= i /\ stack'[i] = stack[i]))
             => \/ Handles("CLOSE_TAG") /\ tok'.name = NameOfFrame(nodes, stack[i])
                      /\ Len(stack') = i - 1
                \/ Names("HXML102", nodes, stack[i], Appended)
       /\ (pc = "scan" /\ pc' = "parsed")
             => \A i \in 2..Len(stack) :
                   IsStrictFrame(nodes, stack[i])
                   => Names("HXML103", nodes, stack[i], Appended)]_vars

StrictAbove(ns, stk, from) ==
    SelectSeq(SubSeq(stk, from, Len(stk)), LAMBDA entry : IsStrictFrame(ns, entry))

\* C7: at the end of input parse emits exactly one HXML103 for each strict
\* element frame still on the stack, in bottom-to-top order, and nothing for
\* the lenient frames.
C7_NeverClosed ==
    [][(pc = "scan" /\ pc' = "parsed")
        => LET strict == StrictAbove(nodes, stack, 2) IN
           /\ Len(Appended) = Len(strict)
           /\ SubSeq(diagnostics', 1, Len(diagnostics)) = diagnostics
           /\ \A i \in 1..Len(strict) :
                 /\ Appended[i].code = "HXML103"
                 /\ Appended[i].name = NameOfFrame(nodes, strict[i])
                 /\ Appended[i].loc = nodes[strict[i].node].loc]_vars

\* <d:c><p><d:c> then the end of input: two HXML103, none for the p
C7_Witness ==
    /\ pc = "parsed"
    /\ FrameNames(nodes, stack) = <<"d:c", "p", "d:c">>
    /\ Len(diagnostics) = 2
    /\ diagnostics[1].loc = TokenLoc(1)
    /\ diagnostics[2].loc = TokenLoc(3)

\* C8: a close tag matching a frame below the top pops the match and every
\* frame above it, with exactly one HXML102 for each strict element frame
\* above the match and no diagnostic for the lenient ones.
C8_Unwinding ==
    [][(Handles("CLOSE_TAG") /\ foundOf(nodes, stack, tok') > 0
            /\ foundOf(nodes, stack, tok') < Len(stack))
        => LET found  == foundOf(nodes, stack, tok')
               strict == StrictAbove(nodes, stack, found + 1)
           IN  /\ Len(stack') = found - 1
               /\ stack' = SubSeq(stack, 1, found - 1)
               /\ Len(Appended) = Len(strict)
               /\ SubSeq(diagnostics', 1, Len(diagnostics)) = diagnostics
               /\ \A i \in 1..Len(strict) :
                     /\ Appended[i].code = "HXML102"
                     /\ Appended[i].name = NameOfFrame(nodes, strict[i])
                     /\ Appended[i].loc = nodes[strict[i].node].loc]_vars

\* <div><d:c><p></div>: the d:c and the p are popped with the div, one
\* HXML102 for the d:c
C8_Witness ==
    /\ tok = CloseTag("div")
    /\ ntok = 4
    /\ Len(stack) = 1
    /\ Len(nodes) = 4
    /\ nodes[3].name = "d:c" /\ nodes[4].name = "p"
    /\ nodes[3].children = <<4>>
    /\ Len(diagnostics) = 1
    /\ diagnostics[1].code = "HXML102"
    /\ diagnostics[1].name = "d:c"

InRecent(name) ==
    \E i \in 1..Len(recentlyImplicitlyClosedHtml) :
        recentlyImplicitlyClosedHtml[i] = name

\* C9: a close tag that matches no open frame is consumed without a
\* diagnostic if and only if its name has no colon, its lower-cased name is
\* one of b, i, em, strong and that name is in the recent force-closed
\* buffer; otherwise exactly one HXML101 is emitted for it.
C9_StrayClose ==
    [][(Handles("CLOSE_TAG") /\ foundOf(nodes, stack, tok') = 0)
        => LET silent == /\ ~includes(tok'.name, ":")
                         /\ toLowerCase(tok'.name) \in {"b", "i", "em", "strong"}
                         /\ InRecent(toLowerCase(tok'.name))
           IN  /\ silent <=> diagnostics' = diagnostics
               /\ ~silent =>
                     diagnostics' = Append(diagnostics,
                         makeError("HXML101", tok'.name, TokenLoc(ntok')))]_vars

\* <b><I></b></i>: the stray </i> is consumed without a diagnostic
C9_Witness ==
    /\ tok = CloseTag("i")
    /\ ntok = 4
    /\ Len(nodes) = 3
    /\ nodes[2].name = "b" /\ nodes[3].name = "I"
    /\ nodes[2].children = <<3>>
    /\ Len(stack) = 1
    /\ diagnostics = <<>>
    /\ recentlyImplicitlyClosedHtml = <<>>


IsContainer(ns, id) == ns[id].type \in {"root", "element"}

\* The nodes of the tree in document order
RECURSIVE Preorder(_, _)
RECURSIVE PreorderOfList(_, _)
Preorder(ns, id) ==
    <<id>> \o (IF IsContainer(ns, id) THEN PreorderOfList(ns, ns[id].children) ELSE <<>>)
PreorderOfList(ns, list) ==
    IF Len(list) = 0 THEN <<>>
    ELSE Preorder(ns, Head(list)) \o PreorderOfList(ns, Tail(list))

InTree(ns) == {Preorder(ns, ROOT)[i] : i \in 1..Len(Preorder(ns, ROOT))}

\* The innermost declaration of prefix on the element or its ancestors, with
\* the predeclared prefixes at the Root: None when there is none
RECURSIVE InnermostDeclaration(_, _, _)
InnermostDeclaration(ns, id, prefix) ==
    IF id = ROOT
    THEN IF prefix \in {"xml", "xmlns"} THEN Some(PREDECLARED_NAMESPACES[prefix]) ELSE None
    ELSE IF prefix \in DOMAIN ns[id].namespaces THEN Some(ns[id].namespaces[prefix])
    ELSE InnermostDeclaration(ns, ParentOf(ns, id), prefix)

Undeclared(ns, id, prefix) ==
    LET decl == InnermostDeclaration(ns, id, prefix)
    IN  decl = None \/ decl = Some("")

ReportedAs(code) ==
    {[name |-> validation[i].name, loc |-> validation[i].loc] :
        i \in {j \in 1..Len(validation) : validation[j].code = code}}

ElementsOf(ns) == {id \in InTree(ns) : ns[id].type = "element"}

PrefixedAttrs(ns, id) ==
    {i \in 1..Len(ns[id].attrs) :
        /\ includes(ns[id].attrs[i].name, ":")
        /\ ~startsWith(ns[id].attrs[i].name, "xmlns:")
        /\ ~startsWith(ns[id].attrs[i].name, "xml:")}

\* C4: validate reports HXML201 for an element's non-empty prefix, and
\* HXML204 for an attribute-name prefix other than xmlns: and xml:, if and
\* only if the innermost declaration of the prefix on the element itself or
\* its ancestors (xml and xmlns predeclared at the Root) is missing or empty.
C4_PrefixResolution ==
    pc = "validated" =>
        /\ ReportedAs("HXML201") =
              {[name |-> The(nodes[id].prefix), loc |-> nodes[id].loc] :
                  id \in {e \in ElementsOf(nodes) :
                            /\ nodes[e].prefix # None
                            /\ The(nodes[e].prefix) # ""
                            /\ Undeclared(nodes, e, The(nodes[e].prefix))}}
        /\ ReportedAs("HXML204") =
              UNION {{[name |-> attrPrefixOf(nodes[e].attrs[i].name),
                       loc  |-> nodes[e].attrs[i].loc] :
                         i \in {a \in PrefixedAttrs(nodes, e) :
                                  Undeclared(nodes, e, attrPrefixOf(nodes[e].attrs[a].name))}} :
                     e \in ElementsOf(nodes)}

\* <r xmlns:p="urn:x"><p:x/></r><p:x/>: the p:x inside r resolves, its later
\* sibling outside r is reported
C4_Witness ==
    /\ pc = "validated"
    /\ Len(nodes) = 4
    /\ \A id \in 2..4 : nodes[id].type = "element"
    /\ nodes[2].name = "r" /\ nodes[2].children = <<3>>
    /\ nodes[3].name = "p:x" /\ nodes[4].name = "p:x"
    /\ ReportedAs("HXML201") = {[name |-> "p", loc |-> nodes[4].loc]}

\* The place of a node in the document order of the tree
PlaceOf(ns, id) ==
    CHOOSE i \in 1..Len(Preorder(ns, ROOT)) : Preorder(ns, ROOT)[i] = id

\* C10: normalization discards no node: every node of the tree before
\* ensureHtmlOptionalContainers is in the tree afterwards, unchanged unless it
\* is the Root or the html element, and the nodes moved into a synthesized
\* container keep their relative order.
C10_NothingDiscarded ==
    [][(pc = "scan" /\ pc' = "parsed" /\ ~fragment)
        => /\ InTree(nodes) \subseteq InTree(nodes')
           /\ \A id \in InTree(nodes) :
                 (id # ROOT /\ ~IsHtmlElementNamed(nodes, id, {"html"}))
                 => nodes'[id] = nodes[id]
           /\ \A c \in (Len(nodes) + 1)..Len(nodes') :
                 \A i, j \in 1..Len(nodes'[c].children) :
                    (i < j /\ nodes'[c].children[j] <= Len(nodes))
                    => PlaceOf(nodes, nodes'[c].children[i])
                          < PlaceOf(nodes, nodes'[c].children[j])]_vars


\* Normalization is triggered: a doctype or a lenient document-hint element
\* is at top level (lines 124-136)
Triggered(ns) ==
    \E i \in 1..Len(ns[ROOT].children) :
        \/ ns[ns[ROOT].children[i]].type = "doctype"
        \/ IsHtmlElementNamed(ns, ns[ROOT].children[i], HTML_DOCUMENT_HINT_TAGS)

TopLevelHtml(ns) ==
    {i \in 1..Len(ns[ROOT].children) :
        IsHtmlElementNamed(ns, ns[ROOT].children[i], {"html"})}

\* The first lenient html element at top level
FirstHtml(ns) ==
    ns[ROOT].children[CHOOSE i \in TopLevelHtml(ns) : \A j \in TopLevelHtml(ns) : i <= j]

ChildrenNamed(ns, id, name) ==
    {i \in 1..Len(ns[id].children) : IsHtmlElementNamed(ns, ns[id].children[i], {name})}

\* C11: whenever normalization is triggered, the top-level lenient html
\* element of the result (the first, should there be several) has exactly
\* one head child and exactly one body child.
C11_OneHeadOneBody ==
    [][(pc = "scan" /\ pc' = "parsed" /\ ~fragment /\ Triggered(nodes))
        => (TopLevelHtml(nodes') # {}
            => /\ Cardinality(ChildrenNamed(nodes', FirstHtml(nodes'), "head")) = 1
               /\ Cardinality(ChildrenNamed(nodes', FirstHtml(nodes'), "body")) = 1)]_vars

\* C12: after normalization has been triggered, the children of the Root are
\* doctype nodes followed by at most one html element: no second top-level
\* html element, no other top-level node, no doctype after the html element.
C12_RootShape ==
    [][(pc = "scan" /\ pc' = "parsed" /\ ~fragment /\ Triggered(nodes))
        => LET kids == nodes'[ROOT].children IN
           /\ Cardinality(TopLevelHtml(nodes')) <= 1
           /\ \A i \in 1..Len(kids) :
                 \/ IsHtmlElementNamed(nodes', kids[i], {"html"})
                 \/ /\ nodes'[kids[i]].type = "doctype"
                    /\ \A j \in TopLevelHtml(nodes') : i < j]_vars

\* The nodes normalization distributes over a synthesized head and body: the
\* content nodes of the Root, or the children of the existing html element
Distributed(ns) ==
    IF TopLevelHtml(ns) = {}
    THEN SelectSeq(ns[ROOT].children, LAMBDA c : ns[c].type # "doctype")
    ELSE ns[FirstHtml(ns)].children

\* Normalization synthesizes both containers: the head, then the body
WrapsContent == pc = "scan" /\ pc' = "parsed" /\ Len(nodes') >= Len(nodes) + 2

IsHeadOnly(ns, id) == IsHtmlElementNamed(ns, id, HTML_HEAD_ONLY_TAGS)

\* C13 as stated: the head-only elements before the first element that is
\* not head-only go to head and everything else to body; a comment or text
\* node before a head-only element does not send it to body.
C13_Original ==
    [][WrapsContent
        => LET list == Distributed(nodes)
               InHead(i) == /\ IsHeadOnly(nodes, list[i])
                            /\ \A j \in 1..(i - 1) :
                                  nodes[list[j]].type = "element"
                                  => IsHeadOnly(nodes, list[j])
               headIdx == {i \in 1..Len(list) : InHead(i)}
           IN  /\ nodes'[Len(nodes) + 1].children =
                     SelectSeq(list, LAMBDA c : \E i \in headIdx : list[i] = c)
               /\ nodes'[Len(nodes) + 2].children =
                     SelectSeq(list, LAMBDA c : ~\E i \in headIdx : list[i] = c)]_vars

\* C13, amended: the leading run of lenient head-only elements goes to head
\* and every node from the first other node on (a text, a comment, a strict
\* element or any other element) goes to body, head-only elements included.
C13_LeadingHeadOnly ==
    [][WrapsContent
        => LET list == Distributed(nodes)
               lead == {k \in 0..Len(list) :
                          /\ \A i \in 1..k : IsHeadOnly(nodes, list[i])
                          /\ k < Len(list) => ~IsHeadOnly(nodes, list[k + 1])}
               k == CHOOSE n \in lead : TRUE
           IN  /\ nodes'[Len(nodes) + 1].name = "head"
               /\ nodes'[Len(nodes) + 2].name = "body"
               /\ nodes'[Len(nodes) + 1].children = SubSeq(list, 1, k)
               /\ nodes'[Len(nodes) + 2].children = SubSeq(list, k + 1, Len(list))]_vars

\* <meta><!--c--><meta>: the first meta is in head, the comment and the meta
\* after it are in body
C13_Witness ==
    /\ pc = "parsed"
    /\ Len(nodes) = 7
    /\ nodes[3].type = "comment"
    /\ nodes[4].type = "element" /\ nodes[4].name = "meta"
    /\ nodes[5].children = <<2>>
    /\ nodes[6].children = <<3, 4>>
    /\ nodes[ROOT].children = <<7>>

\* A numeric character reference &#N; or &#xH; of n characters at index i
IsNumericReferenceAt(s, i, n) ==
    /\ n >= 4 /\ i + n - 1 <= Len(s)
    /\ SubSeq(s, i, i + 1) = "&#"
    /\ SubSeq(s, i + n - 1, i + n - 1) = ";"
    /\ \/ \A j \in (i + 2)..(i + n - 2) : SubSeq(s, j, j) \in CharsOf(DecDigits)
       \/ /\ n >= 5 /\ SubSeq(s, i + 2, i + 2) = "x"
          /\ \A j \in (i + 3)..(i + n - 2) : SubSeq(s, j, j) \in CharsOf(HexDigits)

\* The code point a numeric reference denotes
RECURSIVE NumberOf(_, _)
NumberOf(digits, base) ==
    IF Len(digits) = 0 THEN 0
    ELSE NumberOf(SubSeq(digits, 1, Len(digits) - 1), base) * base
         + digitValue(SubSeq(digits, Len(digits), Len(digits)))

CodePointOf(ref) ==
    IF SubSeq(ref, 3, 3) = "x" THEN NumberOf(SubSeq(ref, 4, Len(ref) - 1), 16)
    ELSE NumberOf(SubSeq(ref, 3, Len(ref) - 1), 10)

OutOfRange(ref) ==
    \/ CodePointOf(ref) > MaxCodePoint
    \/ CodePointOf(ref) >= FirstSurrogate /\ CodePointOf(ref) <= LastSurrogate

\* The numeric references of a value, in the order they occur
RECURSIVE NumericReferences(_, _)
NumericReferences(s, i) ==
    IF i > Len(s) THEN <<>>
    ELSE IF \E n \in 4..(Len(s) - i + 1) : IsNumericReferenceAt(s, i, n)
    THEN LET n == CHOOSE m \in 4..(Len(s) - i + 1) : IsNumericReferenceAt(s, i, m)
         IN  <<SubSeq(s, i, i + n - 1)>> \o NumericReferences(s, i + n)
    ELSE NumericReferences(s, i + 1)

\* Every ampersand of the value starts a numeric reference
OnlyNumericReferences(s) ==
    \A i \in 1..Len(s) :
        SubSeq(s, i, i) = "&" => \E n \in 4..(Len(s) - i + 1) : IsNumericReferenceAt(s, i, n)

\* The value with every numeric reference in range replaced by its character
\* and every other one kept
RECURSIVE Dereferenced(_, _)
Dereferenced(s, i) ==
    IF i > Len(s) THEN ""
    ELSE IF \E n \in 4..(Len(s) - i + 1) : IsNumericReferenceAt(s, i, n)
    THEN LET n   == CHOOSE m \in 4..(Len(s) - i + 1) : IsNumericReferenceAt(s, i, m)
             ref == SubSeq(s, i, i + n - 1)
         IN  (IF OutOfRange(ref) THEN ref ELSE fromCodePoint(CodePointOf(ref)))
             \o Dereferenced(s, i + n)
    ELSE SubSeq(s, i, i) \o Dereferenced(s, i + 1)

\* The raw values a step decodes, in order: the text of a text token that
\* becomes a node, the non-null attribute values of an open tag
DecodedValues ==
    IF tok'.type = "TEXT"
    THEN IF Len(nodes') > Len(nodes) THEN <<tok'.value>> ELSE <<>>
    ELSE IF tok'.type = "OPEN_TAG"
    THEN LET present == SelectSeq(tok'.attrs, LAMBDA a : ~IsNone(a.value))
         IN  [i \in 1..Len(present) |-> The(present[i].value)]
    ELSE <<>>

\* The values the new node holds for them
StoredValues ==
    IF tok'.type = "TEXT"
    THEN IF Len(nodes') > Len(nodes) THEN <<nodes'[Len(nodes')].value>> ELSE <<>>
    ELSE IF tok'.type = "OPEN_TAG"
    THEN LET present == SelectSeq(nodes'[Len(nodes')].attrs, LAMBDA a : ~IsNone(a.value))
         IN  [i \in 1..Len(present) |-> The(present[i].value)]
    ELSE <<>>

RECURSIVE Flatten(_)
Flatten(seqs) == IF Len(seqs) = 0 THEN <<>> ELSE Head(seqs) \o Flatten(Tail(seqs))

\* C20: for each numeric character reference in a text node or an attribute
\* value, parse emits exactly one HXML105 and keeps the reference text when
\* its code point is above U+10FFFF or a surrogate, and otherwise replaces
\* the reference by the character of that code point with no HXML105.
C20_NumericReferences ==
    [][(pc = "scan" /\ pc' = "scan")
        => LET raws == DecodedValues
               bad  == Flatten([i \in 1..Len(raws) |->
                          SelectSeq(NumericReferences(raws[i], 1), OutOfRange)])
               reported == SelectSeq(Appended, LAMBDA d : d.code = "HXML105")
           IN  /\ Len(reported) = Len(bad)
               /\ \A i \in 1..Len(bad) : reported[i].name = bad[i]
               /\ \A i \in 1..Len(raws) :
                     OnlyNumericReferences(raws[i])
                     => StoredValues[i] = Dereferenced(raws[i], 1)]_vars

\* <a t="&#xD800;&#x3c;" u>: one HXML105 for the surrogate, which stays in
\* the value, and the character < for the other reference
C20_Witness ==
    /\ tok.type = "OPEN_TAG" /\ tok.name = "a"
    /\ nodes[Len(nodes)].attrs[1].value = Some("&#xD800;<")
    /\ Len(diagnostics) = 1
    /\ diagnostics[1].code = "HXML105"
    /\ diagnostics[1].name = "&#xD800;"

\* The generator of tokenizeStream has returned.
StreamExhausted == pc \notin {"source", "tokenized"}

IsPrefix(short, long) ==
    Len(short) <= Len(long) /\ short = SubSeq(long, 1, Len(short))

\* C16: for one source, tokenizeStream() of a fresh Tokenizer yields the token
\* sequence tokenize() of a fresh Tokenizer returns (types, payloads and source
\* ranges), token after token, and leaves the same list of diagnostics.
C16_StreamAgrees ==
    /\ (pc = "tokenized" => IsPrefix(generator.yielded, lexed.tokens))
    /\ (StreamExhausted /\ lexed # None =>
           /\ generator.yielded = lexed.tokens
           /\ generator.tk.diagnostics = lexed.diagnostics)

\* An exhausted stream that went through a raw-text token held back, an empty
\* text token and a diagnostic
C16_Witness ==
    /\ pc = "streamed"
    /\ Len(lexed.diagnostics) > 0
    /\ \E i, j \in 1..Len(generator.yielded) :
          /\ generator.yielded[i].type = "TEXT" /\ generator.yielded[i].value = ""
          /\ generator.yielded[j].type = "TEXT" /\ generator.yielded[j].value = "a<b"

\* errors.ts, lines 33-49: the codes of each stage
TokenizerCodes == {"HXML002", "HXML003"}
ParserCodes == {"HXML101", "HXML102", "HXML103", "HXML104", "HXML105"}
ValidatorErrorCodes ==
    {"HXML201", "HXML202", "HXML203", "HXML204", "HXML205", "HXML206", "HXML207"}
ValidatorWarningCodes == {"HXML301", "HXML302"}

CodesOf(diags) == {diags[i].code : i \in 1..Len(diags)}

\* C19: every diagnostic of parse is an error with a tokenizer code (HXML002,
\* HXML003) or a parser code (HXML101-HXML105), never a namespace diagnostic;
\* every diagnostic of validate is an error with a code in HXML201-HXML207 or a
\* warning with code HXML301 or HXML302.
C19_CodeBands ==
    /\ \A i \in 1..Len(diagnostics) :
          /\ diagnostics[i].code \in TokenizerCodes \cup ParserCodes
          /\ diagnostics[i].severity = "error"
    /\ \A i \in 1..Len(validation) :
          \/ /\ validation[i].code \in ValidatorErrorCodes
             /\ validation[i].severity = "error"
          \/ /\ validation[i].code \in ValidatorWarningCodes
             /\ validation[i].severity = "warning"

\* A source with bogus markup, a CDATA section in lenient content and an
\* element with an undeclared prefix that is never closed: parse reports the
\* tokenizer and the parser error, validate the prefix and the warning
C19_Witness ==
    /\ pc = "validated"
    /\ \E id \in 1..Len(nodes) :
          nodes[id].type = "element" /\ nodes[id].prefix = Some("d")
    /\ {"HXML003", "HXML103"} \subseteq CodesOf(diagnostics)
    /\ {"HXML201", "HXML301"} \subseteq CodesOf(validation)

\* C17: for a tree and emit options, the chunks emitToStream hands to its
\* callback, joined in call order, are the html emit returns, and both return
\* the same source map (none when none was requested).
C17_StreamedOutput ==
    results.emitToStream # None =>
        /\ join(The(results.emitToStream).chunks) = The(results.emit).result.html
        /\ The(results.emitToStream).sourceMap = The(results.emit).result.sourceMap

\* Both calls returned a source map, for an output of several chunks on more
\* than one line
C17_Witness ==
    /\ pc = "written"
    /\ Len(The(results.emitToStream).chunks) > 3
    /\ The(results.emitToStream).sourceMap # None
    /\ includes(The(The(results.emitToStream).sourceMap).mappings, ";")
    /\ includes(The(The(results.emitToStream).sourceMap).mappings, ",")

\* C18: compile returns the diagnostics of parse (those of the tokenizer, then
\* those of the parser) followed by those of validate on the same tree, which
\* are left out under noValidate, and the html emit returns for that tree and
\* options.emit, whatever was diagnosed.
C18_CompileIsPipeline ==
    results.compile # None =>
        LET compiled == The(results.compile) IN
        /\ compiled.result.ast = nodes
        /\ compiled.result.diagnostics =
              diagnostics \o (IF compiled.options.noValidate THEN <<>> ELSE validation)
        /\ IsPrefix(lexed.diagnostics, diagnostics)
        /\ \A i \in (Len(lexed.diagnostics) + 1)..Len(diagnostics) :
              diagnostics[i].code \in ParserCodes
        /\ compiled.result.html = The(results.emit).result.html
        /\ compiled.result.html = emit(nodes, compiled.options.emit, document).html

\* compile with validation, on a source for which the tokenizer, the parser
\* and the validator each report something and emit writes something
C18_Witness ==
    /\ pc = "compiled"
    /\ ~The(results.compile).options.noValidate
    /\ Len(lexed.diagnostics) > 0
    /\ Len(diagnostics) > Len(lexed.diagnostics)
    /\ Len(validation) > 0
    /\ The(results.compile).result.html # ""

\* The tree below a node without its source positions: node types, element
\* names and modes, attribute names and values, the values of the leaves
RECURSIVE normalizeNode(_, _)
normalizeNode(ns, id) ==
    LET node == ns[id] IN
    CASE node.type = "root" ->
           [type |-> "root",
            children |-> [i \in 1..Len(node.children) |-> normalizeNode(ns, node.children[i])]]
      [] node.type = "element" ->
           [type |-> "element", name |-> node.name, mode |-> node.mode,
            attrs |-> [i \in 1..Len(node.attrs) |->
                          [name |-> node.attrs[i].name, value |-> node.attrs[i].value]],
            children |-> [i \in 1..Len(node.children) |-> normalizeNode(ns, node.children[i])]]
      [] node.type = "processingInstruction" ->
           [type |-> node.type, target |-> node.target, data |-> node.data]
      [] OTHER -> [type |-> node.type, value |-> node.value]

\* The re-parse of the passthrough output gave the tree of the first parse.
RoundTrips == normalizeNode(The(results.reparse).ast, ROOT) = normalizeNode(nodes, ROOT)

DefaultParseOptions == ~fragment /\ ~preserveWhitespace

includesText(s, part) ==
    \E i \in 1..(Len(s) - Len(part) + 1) : SubSeq(s, i, i + Len(part) - 1) = part

\* What the output keeps of a node as it is: no doctype, CDATA section or
\* processing instruction; lenient names in lower case and without namespace
\* declarations; no "--" in a comment; no empty text and no text next to text;
\* no "&" and no "</" in the text of a lenient raw-text element
KeptAsWritten(ns, id) ==
    LET node == ns[id] IN
    /\ node.type \notin {"doctype", "cdata", "processingInstruction"}
    /\ node.type = "comment" => ~includesText(node.value, "--")
    /\ node.type = "text" => node.value # ""
    /\ node.type = "element" /\ node.mode = "html" =>
          /\ node.name = toLowerCase(node.name)
          /\ \A i \in 1..Len(node.attrs) : ~isNamespaceAttrName(node.attrs[i].name)
    /\ node.type = "element" /\ node.mode = "html"
       /\ toLowerCase(node.name) \in HTML_RAW_TEXT_ELEMENTS =>
          \A i \in 1..Len(node.children) :
             ns[node.children[i]].type = "text" =>
                /\ ~includesText(ns[node.children[i]].value, "&")
                /\ ~includesText(ns[node.children[i]].value, "</")
    /\ node.type \in {"root", "element"} =>
          \A i \in 1..(Len(node.children) - 1) :
             ~(ns[node.children[i]].type = "text" /\ ns[node.children[i + 1]].type = "text")

C15_FormatIdempotent ==
    results.format # None => The(results.format).twice = The(results.format).once

\* The tokens tokenize() returned, once it has been called
Tokens == IF pc = "source" THEN <<>> ELSE lexed.tokens

\* The places <<k, i>> of the attributes with a value: the i-th attribute of
\* the k-th token
ValuedAttributes ==
    {<<k, i>> \in (1..Len(Tokens)) \X (1..8) :
        /\ Tokens[k].type = "OPEN_TAG"
        /\ i <= Len(Tokens[k].attrs)
        /\ Tokens[k].attrs[i].value # None}

\* The offset at which the value of attribute at starts in the source: after
\* the name, the '=' and the white space around it
ValueOffset(at) ==
    LET attr == Tokens[at[1]].attrs[at[2]]
    IN  skipWS(document, skipWS(document, attr.loc[1] + Len(attr.name)) + 1)

\* The first offset after the opening quote at from that holds the same
\* quote, a line feed or a carriage return; the length of the source if none
QuotedValueStop(from) ==
    LET stops == {j \in (from + 1)..(Len(document) - 1) :
                     charAt(document, j + 1) \in {charAt(document, from + 1), "\n", "\r"}}
    IN  IF stops = {} THEN Len(document)
        ELSE CHOOSE j \in stops : \A other \in stops : j <= other

\* The attribute at has a quoted value whose closing quote is missing
Unterminated(at) ==
    LET from == ValueOffset(at)
        stop == QuotedValueStop(from)
    IN  /\ charAt(document, from + 1) \in {"\"", "'"}
        /\ (stop = Len(document) \/ charAt(document, stop + 1) \in {"\n", "\r"})

Count(diags, code) == Cardinality({i \in 1..Len(diags) : diags[i].code = code})

\* C21: a quoted attribute value that reaches a line end or the end of input
\* before its closing quote is the text between the opening quote and that
\* place and has exactly one HXML002, for the range from the quote to that
\* place; every HXML002 belongs to such a value of a returned OPEN_TAG token,
\* and a source that starts with such a tag starts with its OPEN_TAG token.
C21_UnterminatedValue ==
    pc # "source" =>
        /\ \A at \in ValuedAttributes :
              Unterminated(at) =>
                  LET from == ValueOffset(at)
                      stop == QuotedValueStop(from)
                  IN  /\ The(Tokens[at[1]].attrs[at[2]].value) = slice(document, from + 1, stop)
                      /\ Cardinality({i \in 1..Len(lexed.diagnostics) :
                                         /\ lexed.diagnostics[i].code = "HXML002"
                                         /\ lexed.diagnostics[i].loc = <<from, stop>>}) = 1
        /\ Count(lexed.diagnostics, "HXML002")
               = Cardinality({at \in ValuedAttributes : Unterminated(at)})
        /\ (/\ Len(document) >= 7
            /\ SubSeq(document, 1, 7) \in {"<a t=\"u", "<a t='u"}
            /\ charAt(document, 8) \in {"", "\n", "\r"})
           => /\ Tokens[1].type = "OPEN_TAG" /\ Tokens[1].name = "a"
              /\ Tokens[1].attrs[1].value = Some("u")

\* Tokenized: a value stopped at a line feed, one stopped at the end of input
C21_Witness ==
    /\ pc = "tokenized"
    /\ \E at, other \in ValuedAttributes :
          /\ Unterminated(at) /\ Unterminated(other)
          /\ QuotedValueStop(ValueOffset(at)) < Len(document)
          /\ charAt(document, QuotedValueStop(ValueOffset(at)) + 1) = "\n"
          /\ QuotedValueStop(ValueOffset(other)) = Len(document)

\* grammar.md, NameStart: ':' | '_' | [A-Za-z]
NameStart == CharsOf(UpperAlpha) \cup CharsOf(LowerAlpha) \cup {":", "_"}

\* C22: a token that starts at a '<' which begins no comment, CDATA section,
\* declaration, processing instruction or close tag and is not followed by a
\* NameStart character is the TEXT token '<', and no diagnostic is reported
\* for it.
C22_BareLessThan ==
    \A k \in 1..Len(Tokens) :
        LET start == Tokens[k].loc[1]
        IN  /\ charAt(document, start + 1) = "<"
            /\ charAt(document, start + 2) \notin NameStart \cup {"!", "?", "/"}
            => /\ Tokens[k].type = "TEXT"
               /\ Tokens[k].value = "<"
               /\ Tokens[k].loc = <<start, start + 1>>
               /\ \A i \in 1..Len(lexed.diagnostics) :
                     lexed.diagnostics[i].loc[1] # start

\* The token opens an unprefixed script, style, textarea or title element
OpensRawText(token) ==
    /\ token.type = "OPEN_TAG"
    /\ ~includes(token.name, ":")
    /\ toLowerCase(token.name) \in HTML_RAW_TEXT_ELEMENTS

\* The offset j holds '</' and name in any letter case, followed by '>', white
\* space or the end of the source
ClosesRawText(j, name) ==
    /\ j + Len(name) + 2 <= Len(document)
    /\ toLowerCase(SubSeq(document, j + 1, j + Len(name) + 2)) = "</" \o toLowerCase(name)
    /\ charAt(document, j + Len(name) + 3) \in {">", " ", "\t", "\n", "\r", ""}

\* The offset at which the raw text that starts at from ends
RawTextEnd(from, name) ==
    LET ends == {j \in from..Len(document) : ClosesRawText(j, name)}
    IN  IF ends = {} THEN Len(document)
        ELSE CHOOSE j \in ends : \A other \in ends : j <= other

\* The tokens the generator has yielded so far
Yielded == generator.yielded

\* C23: once the OPEN_TAG token of an unprefixed script, style, textarea or
\* title element has been returned, the text up to the first matching close
\* tag (or the end of input) is pending as one TEXT token, the next call
\* returns it unmodified, the token after it is the close tag, no TEXT token
\* exists for empty content, and a token is pending at no other moment.
C23_RawText ==
    /\ \A k \in 1..Len(Yielded) :
          OpensRawText(Yielded[k]) =>
              LET from == Yielded[k].loc[2]
                  end  == RawTextEnd(from, Yielded[k].name)
                  text == Located(Text(slice(document, from, end)), from, end)
                  next == IF end > from THEN k + 2 ELSE k + 1
              IN  /\ k = Len(Yielded) =>
                        generator.tk.pending = (IF end > from THEN Some(text) ELSE None)
                  /\ (k < Len(Yielded) /\ end > from) => Yielded[k + 1] = text
                  /\ (next <= Len(Yielded) /\ end < Len(document)) =>
                        /\ Yielded[next].type = "CLOSE_TAG"
                        /\ Yielded[next].loc[1] = end
                        /\ toLowerCase(Yielded[next].name) = toLowerCase(Yielded[k].name)
                  /\ (StreamExhausted /\ end = Len(document)) => Len(Yielded) < next
    /\ generator.tk.pending # None =>
          /\ Len(Yielded) > 0 /\ OpensRawText(Yielded[Len(Yielded)])
          /\ Len(generator.tk.pending) = 1
          /\ generator.tk.pending[1].type = "TEXT"

\* A raw text element whose text holds a '<' was returned as open tag, text
\* and close tag
C23_Witness ==
    \E k \in 1..Len(Yielded) :
        /\ k + 2 <= Len(Yielded)
        /\ OpensRawText(Yielded[k])
        /\ Yielded[k + 1].type = "TEXT" /\ includes(Yielded[k + 1].value, "<")
        /\ Yielded[k + 2].type = "CLOSE_TAG"

\* C29: when a quoted attribute value was stopped at a line end and markup
\* follows the line end, that markup is a token of its own: a token starts at
\* the '<' after the line end.
C29_ResumesAfterLineEnd ==
    \A at \in ValuedAttributes :
        LET stop   == QuotedValueStop(ValueOffset(at))
            resume == skipWS(document, stop)
        IN  /\ Unterminated(at)
            /\ stop < Len(document)
            /\ charAt(document, resume + 1) = "<"
            => \E k \in 1..Len(Tokens) : Tokens[k].loc[1] = resume

\* C30: the range of every HXML105 diagnostic of parse holds the reference
\* itself: the source text from its start offset to its end offset is the
\* reference the diagnostic names.
C30_ReferenceRange ==
    \A i \in 1..Len(diagnostics) :
        diagnostics[i].code = "HXML105" =>
            LET range == referenceRange(<<diagnostics[i].loc[1], diagnostics[i].loc[2]>>,
                                        [index  |-> diagnostics[i].loc[3],
                                         length |-> Len(diagnostics[i].name)])
            IN  slice(document, range[1], range[2]) = diagnostics[i].name

\* The frame on top of the stack once the auto-close of an opening lenient
\* tag has run
TopAfterAutoClose(token) ==
    current(autoCloseBefore(nodes, token.name, stack, HTML_AUTO_CLOSE_BEFORE))

IsLenientTable(ns, entry) ==
    /\ ns[entry.node].type = "element"
    /\ ns[entry.node].mode = "html"
    /\ toLowerCase(ns[entry.node].name) = "table"

LastChild(ns, id) == ns[id].children[Len(ns[id].children)]

\* C24: when a lenient col tag opens and the top frame after auto-close is a
\* lenient table, an empty lenient colgroup is appended to the table and
\* pushed, and the col is its only child; under any other top frame no
\* element but the col is created and the col is the last child of that frame
\* (of the colgroup, when the colgroup is on top).
C24_ImpliedColgroup ==
    [][(Handles("OPEN_TAG") /\ ~xmlModeOf(tok', stack) /\ toLowerCase(tok'.name) = "col")
        => LET top == TopAfterAutoClose(tok')
               colgroup == Len(nodes) + 1
           IN  IF IsLenientTable(nodes, top)
               THEN /\ Len(nodes') = Len(nodes) + 2
                    /\ nodes'[colgroup].type = "element"
                    /\ nodes'[colgroup].name = "colgroup"
                    /\ nodes'[colgroup].mode = "html"
                    /\ nodes'[colgroup].attrs = <<>>
                    /\ nodes'[colgroup].children = <<NewElement>>
                    /\ LastChild(nodes', top.node) = colgroup
                    /\ current(stack').node = colgroup
                    /\ stack'[Len(stack') - 1] = top
                    /\ nodes'[NewElement].name = tok'.name
               ELSE /\ Len(nodes') = Len(nodes) + 1
                    /\ LastChild(nodes', top.node) = NewElement
                    /\ nodes'[NewElement].name = tok'.name
                    /\ current(stack') = top]_vars

\* <table><col><COL>: one implied colgroup on top of the stack, holding both
\* col elements
C24_Witness ==
    /\ tok = Open("COL")
    /\ FrameNames(nodes, stack) = <<"table", "colgroup">>
    /\ Len(nodes[current(stack).node].children) = 2
    /\ Len(nodes) = 5

Clamped(offset) ==
    IF offset < 0 THEN 0 ELSE IF offset > Len(document) THEN Len(document) ELSE offset

\* The offsets before offset that hold a line feed
LineFeedsBefore(offset) == {i \in 0..(offset - 1) : charAt(document, i + 1) = "\n"}

\* The offset at which the line of offset starts: after the last line feed
\* before it
LineStartOf(offset) ==
    IF LineFeedsBefore(offset) = {} THEN 0
    ELSE 1 + CHOOSE i \in LineFeedsBefore(offset) :
                 \A other \in LineFeedsBefore(offset) : other <= i

\* C25: positionAt(offset) answers, for the offset clamped to 0 and the length
\* of the source, line = 1 + the number of line feeds before it, col = its
\* distance from the start of that line, offset = the clamped offset.
C25_PositionAt ==
    position # None =>
        LET offset == Clamped(The(position).asked)
        IN  The(position).answer =
                [line   |-> 1 + Cardinality(LineFeedsBefore(offset)),
                 col    |-> offset - LineStartOf(offset),
                 offset |-> offset]

\* Asked for an offset beyond the end of a source of three lines
C25_Witness ==
    /\ position # None
    /\ The(position).asked > Len(document)
    /\ The(position).answer.line = 3
    /\ The(position).answer.col > 0

\* The places <<node, i>> of the xml:id attributes with a value on strict
\* elements; nodes are numbered in document pre-order
StrictXmlIds ==
    {at \in (1..Len(nodes)) \X (1..2) :
        /\ nodes[at[1]].type = "element"
        /\ nodes[at[1]].mode = "xml"
        /\ at[2] <= Len(nodes[at[1]].attrs)
        /\ nodes[at[1]].attrs[at[2]].name = "xml:id"
        /\ nodes[at[1]].attrs[at[2]].value # None}

XmlIdAt(at) == nodes[at[1]].attrs[at[2]]

Earlier(a, b) == a[1] < b[1] \/ (a[1] = b[1] /\ a[2] < b[2])

\* The xml:id attributes whose value an earlier one already has
RepeatedXmlIds ==
    {at \in StrictXmlIds :
        \E before \in StrictXmlIds :
            Earlier(before, at) /\ XmlIdAt(before).value = XmlIdAt(at).value}

\* C26: with the xml:id check enabled, the HXML206 diagnostics of validate
\* are one for each xml:id attribute with a value on a strict element whose
\* value an earlier such attribute has, so their number is the number of such
\* attributes minus the number of distinct values; with the check disabled
\* there is none.
C26_XmlIdUniqueness ==
    pc = "validated" =>
        IF enforceXmlIdUniqueness
        THEN /\ {[name |-> validation[i].name, loc |-> validation[i].loc] :
                    i \in {j \in 1..Len(validation) : validation[j].code = "HXML206"}}
                = {[name |-> The(XmlIdAt(at).value), loc |-> XmlIdAt(at).loc] :
                     at \in RepeatedXmlIds}
             /\ Count(validation, "HXML206") = Cardinality(RepeatedXmlIds)
             /\ Count(validation, "HXML206")
                    = Cardinality(StrictXmlIds)
                      - Cardinality({XmlIdAt(at).value : at \in StrictXmlIds})
        ELSE Count(validation, "HXML206") = 0

\* Validated with the check enabled: two repeated values on strict elements,
\* and a lenient element whose xml:id has the value of a strict one
C26_Witness ==
    /\ pc = "validated"
    /\ enforceXmlIdUniqueness
    /\ Cardinality(RepeatedXmlIds) = 2
    /\ \E n \in 1..Len(nodes) :
          /\ nodes[n].type = "element" /\ nodes[n].mode = "html"
          /\ Len(nodes[n].attrs) > 0
          /\ nodes[n].attrs[1].name = "xml:id"
          /\ nodes[n].attrs[1].value \in {XmlIdAt(at).value : at \in StrictXmlIds}

\* The tags of the input that open a lenient element on the current stack
LenientOpenTags ==
    {token \in vocabulary : token.type = "OPEN_TAG" /\ ~xmlModeOf(token, stack)}

\* C28: on every stack parse builds and for every lenient tag T that may
\* open, autoCloseBefore(T) returns after at most as many passes as there are
\* frames, what it returns is the stack without some of its top frames, and no
\* lenient element frame left above the topmost strict frame (above the Root
\* when there is none) lists T in its auto-close entry.
C28_AutoCloseTerminates ==
    pc = "scan" =>
        \A token \in LenientOpenTags :
            LET after == autoCloseBefore(nodes, token.name, stack, HTML_AUTO_CLOSE_BEFORE)
            IN  /\ autoCloseBeforePasses(nodes, token.name, stack, HTML_AUTO_CLOSE_BEFORE)
                      <= Len(stack)
                /\ IsPrefix(after, stack)
                /\ Len(after) >= 1
                /\ \A i \in (TopmostStrict(nodes, after) + 1)..Len(after) :
                      i > 1 => ~Lists(nodes, after, i, token)

\* A stack on which a tag of the input takes three passes: two that close
\* frames and the last one
C28_Witness ==
    /\ pc = "scan"
    /\ \E token \in LenientOpenTags :
          /\ autoCloseBeforePasses(nodes, token.name, stack, HTML_AUTO_CLOSE_BEFORE) = 3
          /\ Len(stack) = 3

\* The elements of a tree
Elements(ns) == {id \in DOMAIN ns : ns[id].type = "element"}

\* C27: validate and emit leave the tree as it is: after either call nodes,
\* with every attribute list, children list and namespaces map in it, is
\* what it was before; and no step of parse, from the one after the open tag
\* of an element to the return, nor any later stage, changes the namespaces
\* map of that element.  (A later call of parse builds a tree of its own.)
C27_ReadOnly ==
    [][pc' # "scan" \/ pc = "scan"
       => /\ pc \in {"parsed", "validated"} => nodes' = nodes
          /\ \A id \in Elements(nodes) :
                /\ id \in Elements(nodes')
                /\ nodes'[id].namespaces = nodes[id].namespaces]_vars

\* validate and emit have run on a tree in which an element that declares a
\* prefix has a child that declares the same prefix with another value
C27_Witness ==
    /\ pc = "emitted"
    /\ ~IsNone(results.emit)
    /\ \E id \in Elements(nodes) :
          \E k \in 1..Len(nodes[id].children) :
              LET child == nodes[id].children[k] IN
              /\ child \in Elements(nodes)
              /\ \E prefix \in DOMAIN nodes[id].namespaces \cap DOMAIN nodes[child].namespaces :
                    nodes[id].namespaces[prefix] # nodes[child].namespaces[prefix]

\* The buffer without its k-th entry
WithoutEntry(recent, k) ==
    [i \in 1..(Len(recent) - 1) |-> IF i < k THEN recent[i] ELSE recent[i + 1]]

\* C37: a close tag that matches no open frame leaves the stack and the tree
\* as they were before the token; when it is reported, with one HXML101, the
\* recent force-closed buffer is unchanged, and when it is consumed without
\* a diagnostic the buffer loses exactly one entry, one of the tag's
\* lower-cased name.
C37_UnmatchedCloseFrame ==
    [][(Handles("CLOSE_TAG") /\ foundOf(nodes, stack, tok') = 0)
        => /\ stack' = stack
           /\ nodes' = nodes
           /\ \/ /\ Len(diagnostics') = Len(diagnostics) + 1
                 /\ diagnostics'[Len(diagnostics')].code = "HXML101"
                 /\ recentlyImplicitlyClosedHtml' = recentlyImplicitlyClosedHtml
              \/ /\ diagnostics' = diagnostics
                 /\ \E k \in 1..Len(recentlyImplicitlyClosedHtml) :
                       /\ recentlyImplicitlyClosedHtml[k] = toLowerCase(tok'.name)
                       /\ recentlyImplicitlyClosedHtml' =
                             WithoutEntry(recentlyImplicitlyClosedHtml, k)]_vars

\* A close tag that matches no frame has been reported while an element is
\* open and the buffer holds a name: all three are as they were
C37_Witness ==
    /\ pc = "scan"
    /\ tok.type = "CLOSE_TAG"
    /\ Len(stack) > 1
    /\ Len(recentlyImplicitlyClosedHtml) > 0
    /\ Len(diagnostics) > 0
    /\ diagnostics[Len(diagnostics)].code = "HXML101"
    /\ diagnostics[Len(diagnostics)].loc = TokenLoc(ntok)

\* The lower-cased names of the lenient element frames among the frames, in
\* the order of the stack
RECURSIVE LenientNames(_, _)
LenientNames(ns, frames) ==
    IF frames = <<>> THEN <<>>
    ELSE (IF ns[Head(frames).node].type = "element" /\ Head(frames).mode = "html"
          THEN <<toLowerCase(ns[Head(frames).node].name)>>
          ELSE <<>>) \o LenientNames(ns, Tail(frames))

\* The last n entries of a sequence, all of them when it has fewer
LastOf(seq, n) ==
    IF Len(seq) <= n THEN seq ELSE SubSeq(seq, Len(seq) - n + 1, Len(seq))

\* C34: the recent force-closed buffer never holds more than 16 names; a
\* step changes it only for a close tag: one that matches a frame below the
\* top appends the lower-cased names of the lenient element frames it pops,
\* in stack order, and keeps the last 16 names (the oldest go first); one
\* that matches no frame and is consumed without a diagnostic removes exactly
\* one entry of its name; every other token, an open tag with its auto-closes
\* included, and the end of input leave the buffer as it is; a later call of
\* parse has an empty buffer of its own.
C34_RecentBuffer ==
    [][/\ Len(recentlyImplicitlyClosedHtml') <= 16
       /\ IF Handles("CLOSE_TAG")
          THEN LET found == foundOf(nodes, stack, tok') IN
               IF found = 0
               THEN \/ recentlyImplicitlyClosedHtml' = recentlyImplicitlyClosedHtml
                    \/ /\ diagnostics' = diagnostics
                       /\ \E k \in 1..Len(recentlyImplicitlyClosedHtml) :
                             /\ recentlyImplicitlyClosedHtml[k] = toLowerCase(tok'.name)
                             /\ recentlyImplicitlyClosedHtml' =
                                   WithoutEntry(recentlyImplicitlyClosedHtml, k)
               ELSE recentlyImplicitlyClosedHtml' =
                        LastOf(recentlyImplicitlyClosedHtml
                                 \o LenientNames(nodes, SubSeq(stack, found + 1, Len(stack))),
                               16)
          ELSE IF pc # "scan" /\ pc' = "scan"
          THEN recentlyImplicitlyClosedHtml' = <<>>
          ELSE recentlyImplicitlyClosedHtml' = recentlyImplicitlyClosedHtml]_vars

\* <b>, <i> and <em> in turns seventeen times, </b>: the first <i> has been
\* evicted, the buffer holds the sixteen names from the first <em> on
C34_Witness ==
    /\ tok = CloseTag("b")
    /\ Len(stack) = 1
    /\ Len(nodes) = 19
    /\ nodes[3].name = "i"
    /\ Len(recentlyImplicitlyClosedHtml) = 16
    /\ recentlyImplicitlyClosedHtml[1] = "em"
    /\ recentlyImplicitlyClosedHtml[16] = "i"

\* The children of a node that are not doctype nodes, in order
RECURSIVE WithoutDoctypes(_, _)
WithoutDoctypes(ns, children) ==
    IF children = <<>> THEN <<>>
    ELSE (IF ns[Head(children)].type = "doctype" THEN <<>> ELSE <<Head(children)>>)
         \o WithoutDoctypes(ns, Tail(children))

\* The children among which the node of the frame above frame i is the last
SiblingsBelow(i) ==
    IF i = 1 THEN WithoutDoctypes(nodes, nodes[ROOT].children)
    ELSE nodes[stack[i].node].children

\* C36: while the tokens are scanned, after each of them, the stack
\* is not empty and its first frame is the Root, lenient and outside a region;
\* every frame above it holds an element that is not void (so not
\* self-closed) and is the last child of the node of the frame below (the
\* last child that is not a doctype when that node is the Root), with the
\* mode of the element as the mode of the frame; and no void or self-closed
\* element of the tree has a child.
C36_StackShape ==
    pc = "scan" =>
        /\ Len(stack) >= 1
        /\ stack[1].node = ROOT
        /\ nodes[ROOT].type = "root"
        /\ stack[1].mode = "html"
        /\ ~stack[1].xmlRegion
        /\ \A i \in 2..Len(stack) :
              LET element  == nodes[stack[i].node]
                  siblings == SiblingsBelow(i - 1)
              IN  /\ element.type = "element"
                  /\ ~element.isVoid
                  /\ ~element.selfClosing
                  /\ stack[i].mode = element.mode
                  /\ Len(siblings) > 0
                  /\ siblings[Len(siblings)] = stack[i].node
        /\ \A id \in Elements(nodes) :
              (nodes[id].isVoid \/ nodes[id].selfClosing) => nodes[id].children = <<>>

\* Two elements are open, the one in the Root is followed there by a doctype,
\* and the inner one has a void element as its last child
C36_Witness ==
    /\ pc = "scan"
    /\ Len(stack) = 3
    /\ nodes[nodes[ROOT].children[Len(nodes[ROOT].children)]].type = "doctype"
    /\ LET children == nodes[stack[3].node].children IN
       /\ Len(children) > 0
       /\ nodes[children[Len(children)]].type = "element"
       /\ nodes[children[Len(children)]].isVoid

\* The implied colgroup elements of a tree: they have no source range
ImpliedColgroups(ns) ==
    {id \in Elements(ns) : ns[id].name = "colgroup" /\ ns[id].loc = emptyRange}

\* C40: every element that is a child of an implied colgroup is a col.
C40_ColgroupHoldsCols ==
    \A id \in ImpliedColgroups(nodes) :
        \A k \in 1..Len(nodes[id].children) :
            LET child == nodes[nodes[id].children[k]] IN
            child.type = "element" => toLowerCase(child.name) = "col"

\* The number of frames of the stack that are still on it after the step
KeptFrames ==
    Cardinality({k \in 1..Len(stack) : k <= Len(stack') /\ stack'[k] = stack[k]})

\* C39: the opening of a lenient tag closes no frame but those whose own
\* auto-close entry lists the tag: an open element that does not list it,
\* such as the ul between two li, is not closed with an ancestor that does,
\* and keeps that ancestor open.
C39_ContainerKeepsAncestorOpen ==
    [][(Handles("OPEN_TAG") /\ ~xmlModeOf(tok', stack))
        => \A i \in (KeptFrames + 1)..Len(stack) : Lists(nodes, stack, i, tok')]_vars

\* The text has the part in it
Occurs(text, part) ==
    \E i \in 1..(Len(text) - Len(part) + 1) : SubSeq(text, i, i + Len(part) - 1) = part

\* What is written between <title> and </title>
RawTextContents == {"a<b", "<!--c-->", "<p>", "</titles>", "<STYLE>", "&amp;", " "}

\* C31: the characters between the open tag of an unprefixed title element
\* and its close tag are in the output of parse, validate and emit as they
\* are in the source, between the same tags: not escaped, not decoded, not
\* dropped.
C31_RawTextVerbatim ==
    pc = "emitted" =>
        \A content \in RawTextContents :
            document = "<title>" \o content \o "</title>"
                => Occurs(The(results.emit).result.html,
                          "<title>" \o content \o "</title>")

\* C32: the output of emit for a source that is one comment is <!--, a text
\* without -- in it, and -->, whatever runs of hyphens the comment has.
C32_CommentHasNoDoubleHyphen ==
    (pc = "emitted" /\ Len(nodes) = 2 /\ nodes[2].type = "comment") =>
        LET html == The(results.emit).result.html IN
        /\ Len(html) >= 7
        /\ SubSeq(html, 1, 4) = "<!--"
        /\ SubSeq(html, Len(html) - 2, Len(html)) = "-->"
        /\ ~Occurs(SubSeq(html, 5, Len(html) - 3), "--")

\* The parts of a text between the occurrences of a separator character
RECURSIVE SplitAt(_, _)
SplitAt(text, separator) ==
    IF \E i \in 1..Len(text) : SubSeq(text, i, i) = separator
    THEN LET first == CHOOSE i \in 1..Len(text) :
                          /\ SubSeq(text, i, i) = separator
                          /\ \A j \in 1..(i - 1) : SubSeq(text, j, j) # separator
         IN  <<SubSeq(text, 1, first - 1)>>
             \o SplitAt(SubSeq(text, first + 1, Len(text)), separator)
    ELSE <<text>>

\* The value of a Base64 digit
Base64Value(digit) == (CHOOSE i \in 1..64 : SubSeq(BASE64, i, i) = digit) - 1

\* The integers a Base64 VLQ text stands for: five bits a digit, the lowest
\* first, the sixth bit set on every digit but the last of an integer, the
\* lowest bit of the integer its sign
RECURSIVE VlqDecode(_, _, _, _)
VlqDecode(text, i, weight, sum) ==
    IF i > Len(text) THEN <<>>
    ELSE LET digit == Base64Value(SubSeq(text, i, i))
             value == sum + (digit % 32) * weight
         IN  IF digit >= 32 THEN VlqDecode(text, i + 1, weight * 32, value)
             ELSE <<IF value % 2 = 1 THEN 0 - (value \div 2) ELSE value \div 2>>
                  \o VlqDecode(text, i + 1, 1, 0)

\* The segments of one generated line, decoded, with the deltas added up: the
\* generated column from 0, the source fields from the segment before
RECURSIVE LineSegments(_, _, _, _)
LineSegments(texts, genLine, genCol, prev) ==
    IF texts = <<>> \/ texts = <<"">> THEN <<>>
    ELSE LET deltas == VlqDecode(Head(texts), 1, 1, 0)
             here   == [genLine |-> genLine, genCol |-> genCol + deltas[1],
                        source |-> prev.source + deltas[2],
                        srcLine |-> prev.srcLine + deltas[3],
                        srcCol |-> prev.srcCol + deltas[4]]
         IN  <<here>> \o LineSegments(Tail(texts), genLine, here.genCol, here)

\* The last segment of the lines read so far, the start values when there is
\* none
LastSegment(segments, prev) ==
    IF segments = <<>> THEN prev ELSE segments[Len(segments)]

\* The segments of the mappings from the line group g on
RECURSIVE MapSegments(_, _, _)
MapSegments(groups, g, prev) ==
    IF g > Len(groups) THEN <<>>
    ELSE LET line == LineSegments(SplitAt(groups[g], ","), g - 1, 0, prev)
         IN  line \o MapSegments(groups, g + 1, LastSegment(line, prev))

DecodedMappings(mappings) ==
    MapSegments(SplitAt(mappings, ";"), 1,
                [genLine |-> 0, genCol |-> 0, source |-> 0, srcLine |-> 0, srcCol |-> 0])

\* The line feeds of a text
LineFeedsIn(text) == {i \in 1..Len(text) : SubSeq(text, i, i) = "\n"}

\* The place in the output of the character after the text written so far
OutputPlace(written) ==
    [genLine |-> Cardinality(LineFeedsIn(written)),
     genCol  |-> IF LineFeedsIn(written) = {} THEN Len(written)
                 ELSE Len(written) - (CHOOSE i \in LineFeedsIn(written) :
                                         \A j \in LineFeedsIn(written) : j <= i)]

\* What the source map is to say of the chunks written with a source range:
\* where the chunk starts in the output and where its range starts in the
\* source
RECURSIVE ExpectedSegments(_, _, _)
ExpectedSegments(writes, i, written) ==
    IF i > Len(writes) THEN <<>>
    ELSE (IF writes[i].text # "" /\ ~IsNone(writes[i].loc)
          THEN LET start == The(writes[i].loc)[1]
                   place == OutputPlace(written)
               IN  <<[genLine |-> place.genLine, genCol |-> place.genCol, source |-> 0,
                      srcLine |-> Cardinality(LineFeedsBefore(start)),
                      srcCol |-> start - LineStartOf(start)]>>
          ELSE <<>>)
         \o ExpectedSegments(writes, i + 1, written \o writes[i].text)

\* The calls of sink.write that emit made for its result
WritesOf(options) ==
    rootWrites(nodes, OptionOr(options, "mode", "custom-elements"),
               OptionOr(options, "indent", ""), OptionOr(options, "doctype", TRUE),
               runtimeOf(options))

\* C33: the mappings of a source map of emit, decoded and with the deltas
\* added up (the generated column from 0 on every line, the source line and
\* column across the lines), have one segment for every chunk written with
\* a source range, in order: the line and column of the output at which the
\* chunk starts, source 0, and the line less one and the column at which its
\* range starts in the source; and they have one group more than the output
\* has line feeds.
C33_SourceMapSegments ==
    (pc = "emitted" /\ ~IsNone(The(results.emit).result.sourceMap)) =>
        LET result   == The(results.emit).result
            mappings == The(result.sourceMap).mappings
        IN  /\ DecodedMappings(mappings)
                  = ExpectedSegments(WritesOf(The(results.emit).options), 1, "")
            /\ Len(SplitAt(mappings, ";")) = Cardinality(LineFeedsIn(result.html)) + 1

\* A map of an output of more than one line for a source of more than one
\* line, in which a chunk comes from a later line and an earlier column of
\* the source than the chunk before it, which is on an earlier line of the
\* output and not at its start
C33_Witness ==
    /\ pc = "emitted"
    /\ ~IsNone(The(results.emit).result.sourceMap)
    /\ LineFeedsIn(document) # {}
    /\ LET segments == DecodedMappings(The(The(results.emit).result.sourceMap).mappings) IN
       \E i \in 2..Len(segments) :
           /\ segments[i].genLine > segments[i - 1].genLine
           /\ segments[i].srcLine > segments[i - 1].srcLine
           /\ segments[i].srcCol < segments[i - 1].srcCol
           /\ segments[i - 1].genCol > 0

\* The tokens nextToken has returned so far
Returned == generator.yielded

\* C38: the tokens nextToken returns have source ranges that are not empty
\* and follow one another: the first starts at offset 0, every other one
\* where the one before it ended, and when nextToken has returned null the
\* last one ends at the length of the source, there are no more tokens than
\* the source has characters, and a further call returns null again and
\* leaves the Tokenizer as it is.
C38_ContiguousTokens ==
    /\ \A i \in 1..Len(Returned) :
          /\ Returned[i].loc[1] < Returned[i].loc[2]
          /\ Returned[i].loc[1] = IF i = 1 THEN 0 ELSE Returned[i - 1].loc[2]
    /\ Len(Returned) <= Len(document)
    /\ pc \notin {"source", "tokenized"} =>
          /\ Returned # <<>> => Returned[Len(Returned)].loc[2] = Len(document)
          /\ Returned = <<>> => document = ""
          /\ nextToken(document, generator.tk) = [token |-> None, tk |-> generator.tk]

\* <title>a<b</title> has been read to its end: the open tag, the text that
\* was pending with it, and the close tag
C38_Witness ==
    /\ pc = "streamed"
    /\ document = "<title>a<b</title>"
    /\ Len(Returned) = 3
    /\ Returned[1].loc = <<0, 7>>
    /\ Returned[2].type = "TEXT" /\ Returned[2].loc = <<7, 10>>
    /\ Returned[3].type = "CLOSE_TAG" /\ Returned[3].loc = <<10, 18>>


====
